---- MODULE Spec2Model ----
(***************************************************************************)
(* State-machine model of the reps-and-rest workout tracker:               *)
(*   - the localStorage-backed WorkoutStorage class (src/lib/storage.ts),  *)
(*   - the application shell (src/pages/Index.tsx),                        *)
(*   - the split manager, the session recorder and the progress view.      *)
(*                                                                         *)
(* Conventions                                                             *)
(*   - an absent localStorage key (or a JS null object) is <<>> and a      *)
(*     present one is <<value>>; key families (exercise-<name>,            *)
(*     lastWorkout-<name>, autosave-<key>) are dictionaries, i.e.          *)
(*     functions whose DOMAIN is the set of keys that are present;         *)
(*   - JS arrays are sequences; a JS index i is the TLA+ index i + 1;      *)
(*   - split ids are the numbers whose decimal text the code stores        *)
(*     ('1', '2', '3', Date.now().toString());                             *)
(*   - JS null, undefined and NaN are the numeric sentinels Null,          *)
(*     Undefined and JsNaN;                                                *)
(*   - the session recorder is modelled from its revision built on         *)
(*     WorkoutStorage (session list, history, auto-save slot, split        *)
(*     advance); the earlier revision in src/components/WorkoutTracker.tsx *)
(*     has the same completeSet and keeps no session list;                 *)
(*   - localStorage is the record ls, one field per key or key family;     *)
(*     a WorkoutStorage method m is the pair of operators m (the store     *)
(*     after the call) and mRet (the value it returns).                    *)
(***************************************************************************)
EXTENDS Integers, Sequences, FiniteSets, TLC

\* ------------------------------------------------------------------------
\* Bounds of the exploration
\* ------------------------------------------------------------------------
StartTime == 1000
MaxOps == 9
MaxSessionOps == 6
MaxStoreOps == 4
MaxRestOps == 5
MaxFormDays == 2
MaxPending == 1
MaxEditSets == 1
MaxStreak == 30
MaxProgressOps == 4
MaxStartOps == 3
MaxFormOps == 6
MaxAutoSaveOps == 4
MaxEntryOps == 4
MaxRestartOps == 3
MaxFinalizeOps == 4

\* ------------------------------------------------------------------------
\* Program constants
\* ------------------------------------------------------------------------
DAY_MS == 24 * 60 * 60 * 1000
REST_SECONDS == 90
Null == -1000001
Undefined == -1000002
JsNaN == -1000003

Absent == <<>>
Some(v) == <<v>>
IsPresent(x) == x # <<>>
Val(x) == x[1]

EmptyDict == <<>>
HasKey(d, k) == k \in DOMAIN d
Put(d, k, v) == (k :> v) @@ d
\* TLC hands an operator its arguments unevaluated.  Evaluated(x) is TRUE
\* for every x, and finding that out evaluates x: the recursive operators
\* that hand a store from call to call ask it of the store they received, so
\* that the store of the n-th call is one computation on a value and not n
\* computations nested in each other.
Evaluated(x) == x = x

RECURSIVE Restrict(_, _)
Restrict(d, keys) ==
  IF keys = {} THEN EmptyDict
  ELSE LET x == CHOOSE y \in keys : TRUE
       IN (x :> d[x]) @@ Restrict(d, keys \ {x})
Remove(d, k) == Restrict(d, (DOMAIN d) \ {k})

\* Array.prototype.findIndex: first JS index whose element satisfies the
\* test, -1 when there is none.  Here the test is "id = wanted".
FindIndexById(seq, wanted) ==
  IF \E i \in 1..Len(seq) : seq[i].id = wanted
  THEN (CHOOSE i \in 1..Len(seq) :
          /\ seq[i].id = wanted
          /\ \A j \in 1..(i - 1) : seq[j].id # wanted) - 1
  ELSE -1

\* Array.prototype.find on ids: <<element>> or <<>> (undefined).
FindById(seq, wanted) ==
  LET i == FindIndexById(seq, wanted)
  IN IF i >= 0 THEN Some(seq[i + 1]) ELSE Absent

\* Array.prototype.filter(split => split.id !== splitId)
RECURSIVE FilterOutId(_, _)
FilterOutId(seq, drop) ==
  IF seq = <<>> THEN <<>>
  ELSE IF Head(seq).id # drop
       THEN <<Head(seq)>> \o FilterOutId(Tail(seq), drop)
       ELSE FilterOutId(Tail(seq), drop)

\* String.prototype.trim on the strings the model types into form fields
Trim(s) == IF s \in {"", " "} THEN "" ELSE s

\* ------------------------------------------------------------------------
\* storage.ts : default data
\* ------------------------------------------------------------------------
Ex(i, n, s) == [id |-> i, name |-> n, sets |-> s]

defaultTemplates ==
  [k \in {"Push", "Pull", "Legs", "Upper", "Lower", "Full Body"} |->
    CASE k = "Push" ->
           [id |-> "push", name |-> "Push", exercises |->
             << Ex("bench-press", "Bench Press", 4),
                Ex("overhead-press", "Overhead Press", 3),
                Ex("incline-db-press", "Incline Dumbbell Press", 3),
                Ex("tricep-dips", "Tricep Dips", 3),
                Ex("lateral-raises", "Lateral Raises", 3) >>]
      [] k = "Pull" ->
           [id |-> "pull", name |-> "Pull", exercises |->
             << Ex("deadlift", "Deadlift", 4),
                Ex("pull-ups", "Pull-ups", 3),
                Ex("barbell-rows", "Barbell Rows", 3),
                Ex("face-pulls", "Face Pulls", 3),
                Ex("bicep-curls", "Bicep Curls", 3) >>]
      [] k = "Legs" ->
           [id |-> "legs", name |-> "Legs", exercises |->
             << Ex("squats", "Squats", 4),
                Ex("romanian-deadlift", "Romanian Deadlift", 3),
                Ex("bulgarian-split-squats", "Bulgarian Split Squats", 3),
                Ex("calf-raises", "Calf Raises", 3),
                Ex("walking-lunges", "Walking Lunges", 3) >>]
      [] k = "Upper" ->
           [id |-> "upper", name |-> "Upper", exercises |->
             << Ex("bench-press", "Bench Press", 4),
                Ex("pull-ups", "Pull-ups", 3),
                Ex("overhead-press", "Overhead Press", 3),
                Ex("barbell-rows", "Barbell Rows", 3),
                Ex("dips", "Dips", 3) >>]
      [] k = "Lower" ->
           [id |-> "lower", name |-> "Lower", exercises |->
             << Ex("squats", "Squats", 4),
                Ex("deadlift", "Deadlift", 4),
                Ex("lunges", "Lunges", 3),
                Ex("leg-press", "Leg Press", 3),
                Ex("calf-raises", "Calf Raises", 3) >>]
      [] OTHER ->
           [id |-> "full-body", name |-> "Full Body", exercises |->
             << Ex("squats", "Squats", 3),
                Ex("bench-press", "Bench Press", 3),
                Ex("pull-ups", "Pull-ups", 3),
                Ex("overhead-press", "Overhead Press", 3),
                Ex("deadlift", "Deadlift", 3) >>]]

Split(i, n, d) ==
  [id |-> i, name |-> n, days |-> d, currentDay |-> 0, lastWorkoutDate |-> Null]

defaultSplits ==
  << Split(1, "Push/Pull/Legs",
           <<"Push", "Pull", "Legs", "Rest", "Push", "Pull", "Legs">>),
     Split(2, "Upper/Lower",
           <<"Upper", "Lower", "Rest", "Upper", "Lower", "Rest", "Rest">>),
     Split(3, "Full Body",
           <<"Full Body", "Rest", "Full Body", "Rest", "Full Body", "Rest", "Rest">>) >>

\* ------------------------------------------------------------------------
\* JSON.stringify followed by JSON.parse, on the shapes the program stores:
\* a property whose value is undefined is dropped, NaN becomes null.
\* ------------------------------------------------------------------------
JsonNum(x) == IF x = JsNaN THEN Null ELSE x

DropUndefined(r, optional) ==
  [f \in {g \in DOMAIN r : ~(g \in optional /\ r[g] = Undefined)} |-> r[f]]

\* property read: a missing property reads as undefined
Prop(r, f) == IF f \in DOMAIN r THEN r[f] ELSE Undefined

\* the JS remainder on non-negative operands: x % 0 is NaN
JsMod(a, n) == IF n = 0 THEN JsNaN ELSE a % n

JsonSplit(s) ==
  [id |-> s.id, name |-> s.name, days |-> s.days,
   currentDay |-> JsonNum(s.currentDay), lastWorkoutDate |-> s.lastWorkoutDate]

JsonSplits(seq) == [i \in 1..Len(seq) |-> JsonSplit(seq[i])]

JsonExercise(e) == DropUndefined(e, {"lastWeight", "lastReps", "lastDate"})

JsonTemplate(t) ==
  [id |-> t.id, name |-> t.name,
   exercises |-> [i \in 1..Len(t.exercises) |-> JsonExercise(t.exercises[i])]]

JsonTemplates(m) == [k \in DOMAIN m |-> JsonTemplate(m[k])]

JsonSet(st) == [f \in DOMAIN st |-> IF f \in {"weight", "reps"} THEN JsonNum(st[f]) ELSE st[f]]

JsonSessionExercise(e) ==
  [exerciseId |-> e.exerciseId, name |-> e.name,
   sets |-> [i \in 1..Len(e.sets) |-> JsonSet(e.sets[i])]]

JsonSession(x) ==
  [id |-> x.id, date |-> x.date, workoutType |-> x.workoutType,
   exercises |-> [i \in 1..Len(x.exercises) |-> JsonSessionExercise(x.exercises[i])],
   completed |-> x.completed]

JsonHistory(h) == [weight |-> JsonNum(h.weight), reps |-> JsonNum(h.reps), date |-> h.date]

\* the in-progress payload of the session recorder
JsonTrackerExercise(e) ==
  LET d == DropUndefined(e, {"lastWeight", "lastReps"})
  IN [f \in DOMAIN d |->
        IF f = "sets" THEN [i \in 1..Len(e.sets) |-> JsonSet(e.sets[i])] ELSE d[f]]

JsonTrackerState(d) ==
  [exercises |-> [i \in 1..Len(d.exercises) |-> JsonTrackerExercise(d.exercises[i])],
   currentExerciseIndex |-> d.currentExerciseIndex,
   sessionId |-> d.sessionId]

\* ------------------------------------------------------------------------
\* storage.ts : class WorkoutStorage over localStorage
\* ------------------------------------------------------------------------
emptyStorage ==
  [workoutTemplates |-> Absent, workoutSplits |-> Absent, activeSplit |-> Absent,
   workoutSplit |-> Absent, workoutSessions |-> Absent, workoutStreak |-> Absent,
   exercise |-> EmptyDict, lastWorkout |-> EmptyDict, autosave |-> EmptyDict]

saveWorkoutTemplates(st, templates) ==
  [st EXCEPT !.workoutTemplates = Some(JsonTemplates(templates))]

getWorkoutTemplatesRet(st) ==
  IF IsPresent(st.workoutTemplates) THEN Val(st.workoutTemplates) ELSE defaultTemplates

\* a read that returns the defaults without storing them
getWorkoutTemplatesNoSave(st) == st

getWorkoutTemplates(st) ==
  IF IsPresent(st.workoutTemplates) THEN st ELSE saveWorkoutTemplates(st, defaultTemplates)

\* templates[workoutType] || null
getWorkoutTemplateRet(st, workoutType) ==
  LET templates == getWorkoutTemplatesRet(st)
  IN IF HasKey(templates, workoutType) THEN Some(templates[workoutType]) ELSE Absent

getWorkoutTemplate(st, workoutType) == getWorkoutTemplates(st)

\* an update that re-stores the mapping it read
updateWorkoutTemplateDropped(st, workoutType, template) ==
  saveWorkoutTemplates(st, getWorkoutTemplatesRet(st))

updateWorkoutTemplate(st, workoutType, template) ==
  LET templates == getWorkoutTemplatesRet(st)
  IN saveWorkoutTemplates(getWorkoutTemplates(st), Put(templates, workoutType, template))

getExerciseHistoryRet(st, exerciseName) ==
  IF HasKey(st.exercise, exerciseName) THEN Some(st.exercise[exerciseName]) ELSE Absent

saveExerciseHistory(st, exerciseName, data) ==
  [st EXCEPT !.exercise = Put(st.exercise, exerciseName, JsonHistory(data))]

getWorkoutSessionsRet(st) ==
  IF IsPresent(st.workoutSessions) THEN Val(st.workoutSessions) ELSE <<>>

\* the forEach over exercises and sets that follows the write of the list:
\* every completed set overwrites the history entry of its exercise name
\* a projection that keeps the heaviest completed set
HistoryFromSetsHeaviest(st, name, sets, date) ==
  LET done == {k \in 1..Len(sets) : sets[k].completed}
  IN IF done = {} THEN st
     ELSE LET best == CHOOSE k \in done : \A j \in done : sets[j].weight <= sets[k].weight
          IN saveExerciseHistory(st, name,
               [weight |-> sets[best].weight, reps |-> sets[best].reps, date |-> date])

RECURSIVE HistoryFromSets(_, _, _, _)
HistoryFromSets(st, name, sets, date) ==
  IF sets = <<>> \/ ~Evaluated(st) THEN st
  ELSE HistoryFromSets(
         IF Head(sets).completed
         THEN saveExerciseHistory(st, name,
                [weight |-> Head(sets).weight, reps |-> Head(sets).reps, date |-> date])
         ELSE st,
         name, Tail(sets), date)

RECURSIVE HistoryFromExercises(_, _, _)
HistoryFromExercises(st, exs, date) ==
  IF exs = <<>> \/ ~Evaluated(st) THEN st
  ELSE HistoryFromExercises(
         HistoryFromSets(st, Head(exs).name, Head(exs).sets, date), Tail(exs), date)

\* a save that always pushes
saveWorkoutSessionPush(st, session) ==
  LET updated == Append(getWorkoutSessionsRet(st), session)
      st1 == [st EXCEPT !.workoutSessions =
                Some([i \in 1..Len(updated) |-> JsonSession(updated[i])])]
  IN HistoryFromExercises(st1, session.exercises, session.date)

saveWorkoutSession(st, session) ==
  LET sessions == getWorkoutSessionsRet(st)
      existingIndex == FindIndexById(sessions, session.id)
      updated == IF existingIndex >= 0
                 THEN [sessions EXCEPT ![existingIndex + 1] = session]
                 ELSE Append(sessions, session)
      st1 == [st EXCEPT !.workoutSessions =
                Some([i \in 1..Len(updated) |-> JsonSession(updated[i])])]
  IN HistoryFromExercises(st1, session.exercises, session.date)

saveWorkoutSplits(st, splits) ==
  [st EXCEPT !.workoutSplits = Some(JsonSplits(splits))]

getWorkoutSplitsRet(st) ==
  IF IsPresent(st.workoutSplits) THEN Val(st.workoutSplits) ELSE defaultSplits

getWorkoutSplits(st) ==
  IF IsPresent(st.workoutSplits) THEN st ELSE saveWorkoutSplits(st, defaultSplits)

\* <<split>> or <<>> (null)
getActiveSplitRet(st) ==
  IF IsPresent(st.activeSplit)
  THEN FindById(getWorkoutSplitsRet(st), Val(st.activeSplit))
  ELSE Absent

getActiveSplit(st) ==
  IF IsPresent(st.activeSplit) THEN getWorkoutSplits(st) ELSE st

setActiveSplit(st, splitId) ==
  LET st1 == [st EXCEPT !.activeSplit = Some(splitId)]
      st2 == getWorkoutSplits(st1)
      split == FindById(getWorkoutSplitsRet(st1), splitId)
  IN IF IsPresent(split)
     THEN [st2 EXCEPT !.workoutSplit = Some(JsonSplit(Val(split)))]
     ELSE st2

updateSplit(st, updatedSplit) ==
  LET splits == getWorkoutSplitsRet(st)
      st1 == getWorkoutSplits(st)
      index == FindIndexById(splits, updatedSplit.id)
  IN IF index >= 0
     THEN LET st2 == saveWorkoutSplits(st1, [splits EXCEPT ![index + 1] = updatedSplit])
          IN IF st2.activeSplit = Some(updatedSplit.id)
             THEN [st2 EXCEPT !.workoutSplit = Some(JsonSplit(updatedSplit))]
             ELSE st2
     ELSE st1

\* parseInt(localStorage.getItem('workoutStreak') || '0')
getStreakRet(st) == IF IsPresent(st.workoutStreak) THEN Val(st.workoutStreak) ELSE 0

\* a finalization that leaves the streak as it is
updateStreakFrozen(st) ==
  [st EXCEPT !.workoutStreak = Some(getStreakRet(st))]

\* a finalization that starts the streak over
updateStreakRestart(st) == [st EXCEPT !.workoutStreak = Some(1)]

updateStreak(st) ==
  LET currentStreak == getStreakRet(st)
  IN [st EXCEPT !.workoutStreak = Some(currentStreak + 1)]

autoSave(st, key, data, clock) ==
  [st EXCEPT !.autosave = Put(st.autosave, key, [data |-> data, timestamp |-> clock])]

\* a read that never expires an entry
getAutoSaveRetNoExpiry(st, key, clock) ==
  IF HasKey(st.autosave, key) THEN Some(st.autosave[key].data) ELSE Absent

\* <<data>> or <<>> (null)
getAutoSaveRet(st, key, clock) ==
  IF HasKey(st.autosave, key)
  THEN IF clock - st.autosave[key].timestamp < DAY_MS
       THEN Some(st.autosave[key].data)
       ELSE Absent
  ELSE Absent

clearAutoSave(st, key) == [st EXCEPT !.autosave = Remove(st.autosave, key)]

\* ------------------------------------------------------------------------
\* State
\* ------------------------------------------------------------------------
VARIABLES
  ls,                   \* localStorage
  now,                  \* Date.now(), in milliseconds
  opsLeft,              \* user events left (exploration budget)
  currentView,          \* Index: useState<View>
  currentWorkoutType,   \* Index: useState<string>
  currentSplit,         \* WorkoutDashboard: useState<WorkoutSplit>
  splits,               \* WorkoutSplitManager: useState<WorkoutSplit[]>
  activeSplit,          \* WorkoutSplitManager: useState<string | null>
  newSplitName,         \* WorkoutSplitManager: create-dialog form
  newSplitDays,
  showCreateDialog,
  exercises,            \* WorkoutTracker: useState<Exercise[]>
  currentExerciseIndex,
  restTimer,
  isResting,
  sessionId,
  timeouts,             \* WorkoutTracker: pending setTimeout(autoSaveWorkout, 100)
  intervalClosure,      \* WorkoutTracker: the closure the 10 s interval calls
  streak,               \* ProgressTracker: useState
  totalWorkouts,
  strongestLifts,
  templateState,        \* ExerciseManager: template, useState<WorkoutTemplate | null>
  showAddDialog,        \* ExerciseManager: add-dialog form
  newExerciseName,
  newExerciseSets,
  lastCall              \* the last handler that ran, with its arguments and result

storeVars == <<ls, now>>
shellVars == <<currentView, currentWorkoutType, currentSplit>>
managerVars == <<splits, activeSplit, newSplitName, newSplitDays, showCreateDialog>>
trackerVars == <<exercises, currentExerciseIndex, restTimer, isResting, sessionId,
                 intervalClosure>>
progressVars == <<streak, totalWorkouts, strongestLifts>>
exerciseVars == <<templateState, showAddDialog, newExerciseName, newExerciseSets>>
vars == <<ls, now, opsLeft, currentView, currentWorkoutType, currentSplit,
          splits, activeSplit, newSplitName, newSplitDays, showCreateDialog,
          exercises, currentExerciseIndex, restTimer, isResting, sessionId,
          timeouts, intervalClosure, streak, totalWorkouts, strongestLifts,
          templateState, showAddDialog, newExerciseName, newExerciseSets, lastCall>>

\* a user event: counted against the exploration budget
UserEvent == opsLeft > 0 /\ opsLeft' = opsLeft - 1

Call(name, args, result) == [op |-> name, args |-> args, result |-> result]

\* the useState initial values of each component
dashboardDefaultSplit == defaultSplits[1]

ManagerUnmounted ==
  /\ splits' = <<>>
  /\ activeSplit' = Absent
  /\ newSplitName' = ""
  /\ newSplitDays' = <<"">>
  /\ showCreateDialog' = FALSE

TrackerUnmounted ==
  /\ exercises' = <<>>
  /\ currentExerciseIndex' = 0
  /\ restTimer' = 0
  /\ isResting' = FALSE
  /\ sessionId' = 0
  /\ intervalClosure' = Absent

ExerciseManagerUnmounted ==
  /\ templateState = Absent
  /\ showAddDialog = FALSE
  /\ newExerciseName = ""
  /\ newExerciseSets = 3

ProgressUnmounted ==
  /\ streak' = 0
  /\ totalWorkouts' = 0
  /\ strongestLifts' = EmptyDict

\* WorkoutDashboard mount effect: read 'workoutSplit' into currentSplit
DashboardLoad(st) ==
  IF IsPresent(st.workoutSplit) THEN Val(st.workoutSplit) ELSE dashboardDefaultSplit

\* a lookup that always takes the first day of the list
DayLabelFirst(split) == split.days[1]

\* split.days[split.currentDay]
DayLabel(split) ==
  IF split.currentDay >= 0 /\ split.currentDay < Len(split.days)
  THEN split.days[split.currentDay + 1]
  ELSE "undefined"

getCurrentWorkout == DayLabel(currentSplit)

Init ==
  /\ ls = emptyStorage
  /\ now = StartTime
  /\ opsLeft = MaxOps
  /\ currentView = "dashboard"
  /\ currentWorkoutType = ""
  /\ currentSplit = dashboardDefaultSplit
  /\ splits = <<>>
  /\ activeSplit = Absent
  /\ newSplitName = ""
  /\ newSplitDays = <<"">>
  /\ showCreateDialog = FALSE
  /\ exercises = <<>>
  /\ currentExerciseIndex = 0
  /\ restTimer = 0
  /\ isResting = FALSE
  /\ sessionId = 0
  /\ timeouts = <<>>
  /\ intervalClosure = Absent
  /\ streak = 0
  /\ totalWorkouts = 0
  /\ strongestLifts = EmptyDict
  /\ ExerciseManagerUnmounted
  /\ lastCall = Call("init", <<>>, <<>>)

\* ------------------------------------------------------------------------
\* WorkoutSplitManager
\* ------------------------------------------------------------------------
\* loadSplits, as a function of the store: the store after, and the two
\* pieces of component state it sets
loadSplitsStore(st) ==
  LET loadedSplits == getWorkoutSplitsRet(st)
      st1 == getWorkoutSplits(st)
  IN IF IsPresent(st1.activeSplit) THEN st1
     ELSE IF Len(loadedSplits) > 0 THEN setActiveSplit(st1, loadedSplits[1].id)
     ELSE st1

loadSplitsActive(st) ==
  LET loadedSplits == getWorkoutSplitsRet(st)
  IN IF IsPresent(st.activeSplit) THEN st.activeSplit
     ELSE IF Len(loadedSplits) > 0 THEN Some(loadedSplits[1].id)
     ELSE Absent

\* Index: onViewSplit, which mounts the split manager (useEffect: loadSplits)
onViewSplit ==
  /\ currentView = "dashboard"
  /\ UserEvent
  /\ currentView' = "split"
  /\ splits' = getWorkoutSplitsRet(ls)
  /\ activeSplit' = loadSplitsActive(ls)
  /\ ls' = loadSplitsStore(ls)
  /\ newSplitName' = ""
  /\ newSplitDays' = <<"">>
  /\ showCreateDialog' = FALSE
  /\ lastCall' = Call("loadSplits", <<>>, <<>>)
  /\ UNCHANGED <<now, currentWorkoutType, currentSplit, trackerVars, timeouts, progressVars, exerciseVars>>

\* onBack of the split manager: back to the dashboard, which mounts anew
splitOnBack ==
  /\ currentView = "split"
  /\ ~showCreateDialog               \* the create dialog is modal
  /\ UserEvent
  /\ currentView' = "dashboard"
  /\ currentSplit' = DashboardLoad(ls)
  /\ ManagerUnmounted
  /\ lastCall' = Call("onBack", <<"split">>, <<>>)
  /\ UNCHANGED <<ls, now, currentWorkoutType, trackerVars, timeouts, progressVars, exerciseVars>>

setActiveWorkoutSplit(splitId) ==
  /\ currentView = "split"
  /\ \E i \in 1..Len(splits) : splits[i].id = splitId   \* a button of that split's card
  /\ ~showCreateDialog               \* the create dialog is modal
  /\ activeSplit # Some(splitId)      \* the button is rendered for the others only
  /\ UserEvent
  /\ activeSplit' = Some(splitId)
  /\ ls' = setActiveSplit(ls, splitId)
  /\ lastCall' = Call("setActiveWorkoutSplit", <<splitId>>, <<>>)
  /\ UNCHANGED <<now, shellVars, splits, newSplitName, newSplitDays, showCreateDialog,
                 trackerVars, timeouts, progressVars, exerciseVars>>

\* the split skipDay writes
\* an advance without the modulo
skipDaySplitNoWrap(updatedSplit) ==
  [updatedSplit EXCEPT !.currentDay = updatedSplit.currentDay + 1]

skipDaySplit(updatedSplit) ==
  [updatedSplit EXCEPT
     !.currentDay = JsMod(updatedSplit.currentDay + 1, Len(updatedSplit.days))]

skipDay(splitId) ==
  /\ currentView = "split"
  /\ \E i \in 1..Len(splits) : splits[i].id = splitId   \* a button of that split's card
  /\ ~showCreateDialog               \* the create dialog is modal
  /\ UserEvent
  /\ LET found == FindById(splits, splitId)
     IN IF IsPresent(found)
        THEN LET newSplit == skipDaySplit(Val(found))
             IN /\ ls' = updateSplit(ls, newSplit)
                /\ splits' = [i \in 1..Len(splits) |->
                                IF splits[i].id = splitId THEN newSplit ELSE splits[i]]
        ELSE UNCHANGED <<ls, splits>>
  /\ lastCall' = Call("skipDay", <<splitId>>, <<>>)
  /\ UNCHANGED <<now, shellVars, activeSplit, newSplitName, newSplitDays, showCreateDialog,
                 trackerVars, timeouts, progressVars, exerciseVars>>

\* saveSplits: setSplits + storage.saveWorkoutSplits
\* a delete button that is never disabled
deleteSplitButtonAlways == TRUE

deleteSplitButtonEnabled == Len(splits) # 1

\* a delete of the active split that forgets the 'workoutSplit' copy
deleteSplitStoreKeepMirror(st, newSplits, wasActive) ==
  LET st1 == saveWorkoutSplits(st, newSplits)
  IN IF wasActive THEN [st1 EXCEPT !.activeSplit = Absent] ELSE st1

\* the writes of deleteSplit: saveSplits(newSplits) and, when the deleted
\* split was the active one, the removal of 'activeSplit' and 'workoutSplit'
deleteSplitStore(st, newSplits, wasActive) ==
  LET st1 == saveWorkoutSplits(st, newSplits)
  IN IF wasActive
     THEN [st1 EXCEPT !.activeSplit = Absent, !.workoutSplit = Absent]
     ELSE st1

deleteSplit(splitId) ==
  /\ currentView = "split"
  /\ \E i \in 1..Len(splits) : splits[i].id = splitId   \* a button of that split's card
  /\ ~showCreateDialog               \* the create dialog is modal
  /\ deleteSplitButtonEnabled
  /\ UserEvent
  /\ LET newSplits == FilterOutId(splits, splitId)
     IN /\ splits' = newSplits
        /\ ls' = deleteSplitStore(ls, newSplits, activeSplit = Some(splitId))
        /\ activeSplit' = IF activeSplit = Some(splitId) THEN Absent ELSE activeSplit
  /\ lastCall' = Call("deleteSplit", <<splitId>>, <<>>)
  /\ UNCHANGED <<now, shellVars, newSplitName, newSplitDays, showCreateDialog,
                 trackerVars, timeouts, progressVars, exerciseVars>>

openCreateDialog ==
  /\ currentView = "split"
  /\ ~showCreateDialog
  /\ UserEvent
  /\ showCreateDialog' = TRUE
  /\ lastCall' = Call("setShowCreateDialog", <<TRUE>>, <<>>)
  /\ UNCHANGED <<storeVars, shellVars, splits, activeSplit, newSplitName, newSplitDays,
                 trackerVars, timeouts, progressVars, exerciseVars>>

cancelCreateDialog ==
  /\ currentView = "split"
  /\ showCreateDialog
  /\ UserEvent
  /\ showCreateDialog' = FALSE
  /\ lastCall' = Call("setShowCreateDialog", <<FALSE>>, <<>>)
  /\ UNCHANGED <<storeVars, shellVars, splits, activeSplit, newSplitName, newSplitDays,
                 trackerVars, timeouts, progressVars, exerciseVars>>

setNewSplitName(value) ==
  /\ currentView = "split"
  /\ showCreateDialog
  /\ value # newSplitName
  /\ UserEvent
  /\ newSplitName' = value
  /\ lastCall' = Call("setNewSplitName", <<value>>, <<>>)
  /\ UNCHANGED <<storeVars, shellVars, splits, activeSplit, newSplitDays, showCreateDialog,
                 trackerVars, timeouts, progressVars, exerciseVars>>

updateSplitDay(index, value) ==
  /\ currentView = "split"
  /\ showCreateDialog
  /\ index \in 0..(Len(newSplitDays) - 1)
  /\ value # newSplitDays[index + 1]
  /\ UserEvent
  /\ newSplitDays' = [newSplitDays EXCEPT ![index + 1] = value]
  /\ lastCall' = Call("updateSplitDay", <<index, value>>, <<>>)
  /\ UNCHANGED <<storeVars, shellVars, splits, activeSplit, newSplitName, showCreateDialog,
                 trackerVars, timeouts, progressVars, exerciseVars>>

addSplitDay ==
  /\ currentView = "split"
  /\ showCreateDialog
  /\ Len(newSplitDays) < 7            \* disabled={newSplitDays.length >= 7}
  /\ Len(newSplitDays) < MaxFormDays
  /\ UserEvent
  /\ newSplitDays' = Append(newSplitDays, "")
  /\ lastCall' = Call("addSplitDay", <<>>, <<>>)
  /\ UNCHANGED <<storeVars, shellVars, splits, activeSplit, newSplitName, showCreateDialog,
                 trackerVars, timeouts, progressVars, exerciseVars>>

removeSplitDay(index) ==
  /\ currentView = "split"
  /\ showCreateDialog
  /\ Len(newSplitDays) > 1            \* the button is rendered only then
  /\ index \in 0..(Len(newSplitDays) - 1)
  /\ UserEvent
  /\ newSplitDays' = [i \in 1..(Len(newSplitDays) - 1) |->
                        IF i <= index THEN newSplitDays[i] ELSE newSplitDays[i + 1]]
  /\ lastCall' = Call("removeSplitDay", <<index>>, <<>>)
  /\ UNCHANGED <<storeVars, shellVars, splits, activeSplit, newSplitName, showCreateDialog,
                 trackerVars, timeouts, progressVars, exerciseVars>>

\* newSplitDays.filter(day => day.trim())
RECURSIVE FilterNonBlank(_)
FilterNonBlank(days) ==
  IF days = <<>> THEN <<>>
  ELSE IF Trim(Head(days)) # ""
       THEN <<Head(days)>> \o FilterNonBlank(Tail(days))
       ELSE FilterNonBlank(Tail(days))

createSplitInvalid ==
  \/ Trim(newSplitName) = ""
  \/ \E i \in 1..Len(newSplitDays) : Trim(newSplitDays[i]) = ""

\* successive user events are at least one millisecond apart, so the id
\* Date.now().toString() is later than every earlier clock reading
createSplit ==
  /\ currentView = "split"
  /\ showCreateDialog
  /\ UserEvent
  /\ IF createSplitInvalid
     THEN /\ lastCall' = Call("createSplit", <<newSplitName, newSplitDays>>, "Invalid Split")
          /\ UNCHANGED <<ls, now, splits, newSplitName, newSplitDays, showCreateDialog>>
     ELSE LET newSplit == [id |-> now + 1, name |-> newSplitName,
                           days |-> FilterNonBlank(newSplitDays),
                           currentDay |-> 0, lastWorkoutDate |-> Null]
          IN /\ now' = now + 1
             /\ splits' = Append(splits, newSplit)
             /\ ls' = saveWorkoutSplits(ls, Append(splits, newSplit))
             /\ showCreateDialog' = FALSE
             /\ newSplitName' = ""
             /\ newSplitDays' = <<"">>
             /\ lastCall' = Call("createSplit", <<newSplitName, newSplitDays>>, "Split Created!")
  /\ UNCHANGED <<shellVars, activeSplit, trackerVars, timeouts, progressVars, exerciseVars>>

\* ------------------------------------------------------------------------
\* WorkoutTracker (session recorder)
\* ------------------------------------------------------------------------
MaxSetCount == 4
WeightValues == {0, 100}
RepsValues == {0, 5}

\* x || 0
OrZero(x) == IF x \in {0, Undefined, Null, JsNaN} THEN 0 ELSE x

AutoSaveKey(workoutType) == <<"workout", workoutType>>

\* sets that start from zero whatever the history holds
NewSetsNoHistory(index, setIndex, count, history) ==
  [k \in 1..count |-> [id |-> <<"set", index, k - 1>>, weight |-> 0, reps |-> 0,
                       completed |-> FALSE]]

\* template.exercises.map(...) of initializeWorkout
RECURSIVE NewSets(_, _, _, _)
NewSets(index, setIndex, count, history) ==
  IF setIndex >= count THEN <<>>
  ELSE << [id |-> <<"set", index, setIndex>>,
           weight |-> IF IsPresent(history) THEN OrZero(Val(history).weight) ELSE 0,
           reps |-> IF IsPresent(history) THEN OrZero(Val(history).reps) ELSE 0,
           completed |-> FALSE] >>
       \o NewSets(index, setIndex + 1, count, history)

WorkoutExercise(st, exercise, index) ==
  LET history == getExerciseHistoryRet(st, exercise.name)
  IN [id |-> exercise.id,
      name |-> exercise.name,
      defaultSets |-> exercise.sets,
      sets |-> NewSets(index, 0, exercise.sets, history),
      lastWeight |-> IF IsPresent(history) THEN Val(history).weight ELSE Undefined,
      lastReps |-> IF IsPresent(history) THEN Val(history).reps ELSE Undefined]

\* an initialization that never looks at the auto-save slot
initializeWorkoutExercisesFresh(st, workoutType, clock) ==
  LET template == getWorkoutTemplateRet(st, workoutType)
  IN IF ~IsPresent(template) \/ Len(Val(template).exercises) = 0 THEN <<>>
     ELSE [i \in 1..Len(Val(template).exercises) |->
             WorkoutExercise(st, Val(template).exercises[i], i - 1)]

\* initializeWorkout: the exercises and the exercise index it sets (the
\* useState initial values when it returns early), and the store after
initializeWorkoutExercises(st, workoutType, clock) ==
  LET autoSaved == getAutoSaveRet(st, AutoSaveKey(workoutType), clock)
      template == getWorkoutTemplateRet(st, workoutType)
  IN IF IsPresent(autoSaved) THEN Val(autoSaved).exercises
     ELSE IF ~IsPresent(template) \/ Len(Val(template).exercises) = 0 THEN <<>>
     ELSE [i \in 1..Len(Val(template).exercises) |->
             WorkoutExercise(st, Val(template).exercises[i], i - 1)]

initializeWorkoutIndex(st, workoutType, clock) ==
  LET autoSaved == getAutoSaveRet(st, AutoSaveKey(workoutType), clock)
  IN IF IsPresent(autoSaved) THEN OrZero(Val(autoSaved).currentExerciseIndex) ELSE 0

initializeWorkoutStore(st, workoutType, clock) ==
  LET autoSaved == getAutoSaveRet(st, AutoSaveKey(workoutType), clock)
  IN IF IsPresent(autoSaved) THEN st ELSE getWorkoutTemplate(st, workoutType)

\* the values a handler of the current render closes over
Closure ==
  [exercises |-> exercises, currentExerciseIndex |-> currentExerciseIndex,
   sessionId |-> sessionId, workoutType |-> currentWorkoutType]

\* autoSaveWorkout, run with the values of the render that created it
autoSaveWorkout(st, c, clock) ==
  IF Len(c.exercises) > 0
  THEN autoSave(st, AutoSaveKey(c.workoutType),
                JsonTrackerState([exercises |-> c.exercises,
                                  currentExerciseIndex |-> c.currentExerciseIndex,
                                  sessionId |-> c.sessionId]),
                clock)
  ELSE st

hasCurrentExercise ==
  currentExerciseIndex >= 0 /\ currentExerciseIndex < Len(exercises)

currentExercise == exercises[currentExerciseIndex + 1]

CountCompleted(sets) == Cardinality({i \in 1..Len(sets) : sets[i].completed})

\* a count that is one too high
completedSetsOffByOne ==
  IF hasCurrentExercise THEN CountCompleted(currentExercise.sets) + 1 ELSE 0

\* currentExercise?.sets.filter(set => set.completed).length || 0
completedSets == IF hasCurrentExercise THEN CountCompleted(currentExercise.sets) ELSE 0

\* Index.handleStartWorkout; entering the workout view mounts the tracker:
\* sessionId from the clock, initializeWorkout, and the 10 s interval whose
\* callback closes over the first render (exercises = [])
handleStartWorkout ==
  /\ currentView = "dashboard"
  /\ getCurrentWorkout # "Rest"        \* disabled={getCurrentWorkout() === 'Rest'}
  /\ UserEvent
  /\ IF IsPresent(ls.workoutSplit) /\ DayLabel(Val(ls.workoutSplit)) # "Rest"
     THEN LET workoutType == DayLabel(Val(ls.workoutSplit))
          IN /\ currentWorkoutType' = workoutType
             /\ currentView' = "workout"
             /\ now' = now + 1
             /\ sessionId' = now'
             /\ exercises' = initializeWorkoutExercises(ls, workoutType, now')
             /\ currentExerciseIndex' = initializeWorkoutIndex(ls, workoutType, now')
             /\ ls' = initializeWorkoutStore(ls, workoutType, now')
             /\ restTimer' = 0
             /\ isResting' = FALSE
             /\ intervalClosure' = Some([exercises |-> <<>>, currentExerciseIndex |-> 0,
                                         sessionId |-> sessionId',
                                         workoutType |-> workoutType])
             /\ lastCall' = Call("handleStartWorkout", <<>>, workoutType)
     ELSE /\ lastCall' = Call("handleStartWorkout", <<>>, "")
          /\ UNCHANGED <<ls, now, currentView, currentWorkoutType, trackerVars>>
  /\ UNCHANGED <<currentSplit, managerVars, timeouts, progressVars, exerciseVars>>

trackerOnBack ==
  /\ currentView = "workout"
  /\ UserEvent
  /\ currentView' = "dashboard"
  /\ currentSplit' = DashboardLoad(ls)
  /\ TrackerUnmounted
  /\ lastCall' = Call("onBack", <<"workout">>, <<>>)
  /\ UNCHANGED <<ls, now, currentWorkoutType, managerVars, timeouts, progressVars, exerciseVars>>

SetField(set, field, value) ==
  IF field = "weight" THEN [set EXCEPT !.weight = value] ELSE [set EXCEPT !.reps = value]

updateSetExercises(exs, exerciseIndex, setIndex, field, value) ==
  [e \in 1..Len(exs) |->
     IF e - 1 = exerciseIndex
     THEN [exs[e] EXCEPT !.sets =
             [k \in 1..Len(exs[e].sets) |->
                IF k - 1 = setIndex THEN SetField(exs[e].sets[k], field, value)
                ELSE exs[e].sets[k]]]
     ELSE exs[e]]

\* the inputs and +/- buttons of a set call updateSet for the current
\* exercise; they are disabled once the set is completed
updateSet(exerciseIndex, setIndex, field, value) ==
  /\ currentView = "workout"
  /\ hasCurrentExercise
  /\ exerciseIndex = currentExerciseIndex
  /\ setIndex \in 0..(Len(currentExercise.sets) - 1)
  /\ ~currentExercise.sets[setIndex + 1].completed
  /\ currentExercise.sets[setIndex + 1][field] # value   \* onChange: the value changed
  /\ Len(timeouts) < MaxPending
  /\ UserEvent
  /\ exercises' = updateSetExercises(exercises, exerciseIndex, setIndex, field, value)
  /\ timeouts' = Append(timeouts, Closure)
  /\ lastCall' = Call("updateSet", <<exerciseIndex, setIndex, field, value>>, <<>>)
  /\ UNCHANGED <<storeVars, shellVars, managerVars, currentExerciseIndex, restTimer,
                 isResting, sessionId, intervalClosure, progressVars, exerciseVars>>

\* parseFloat / parseInt of the text a number input hands to onChange; the
\* input has no min attribute, and gives "" for text that is no number
InputTexts == {"", "-5", "100"}

parseNumber(text) ==
  CASE text = "100" -> 100
    [] text = "-5" -> -5
    [] OTHER -> JsNaN

\* onChange of the weight input: parseFloat(e.target.value) || 0
weightOnChange(setIndex, text) ==
  updateSet(currentExerciseIndex, setIndex, "weight", OrZero(parseNumber(text)))

\* onChange of the reps input: parseInt(e.target.value) || 0
repsOnChange(setIndex, text) ==
  updateSet(currentExerciseIndex, setIndex, "reps", OrZero(parseNumber(text)))

\* a validation that looks at the weight only
completeSetInvalidWeightOnly(set) == set.weight = 0

completeSetInvalid(set) == set.weight = 0 \/ set.reps = 0

completeSetExercises(exs, exerciseIndex, setIndex) ==
  [e \in 1..Len(exs) |->
     IF e - 1 = exerciseIndex
     THEN [exs[e] EXCEPT !.sets =
             [k \in 1..Len(exs[e].sets) |->
                IF k - 1 = setIndex THEN [exs[e].sets[k] EXCEPT !.completed = TRUE]
                ELSE exs[e].sets[k]]]
     ELSE exs[e]]

\* the complete button of a set: rendered while the set is not completed,
\* disabled={setIndex !== completedSets}
completeSet(exerciseIndex, setIndex) ==
  /\ currentView = "workout"
  /\ hasCurrentExercise
  /\ exerciseIndex = currentExerciseIndex
  /\ setIndex \in 0..(Len(currentExercise.sets) - 1)
  /\ ~currentExercise.sets[setIndex + 1].completed
  /\ setIndex = completedSets
  /\ Len(timeouts) < MaxPending
  /\ UserEvent
  /\ LET set == exercises[exerciseIndex + 1].sets[setIndex + 1]
     IN IF completeSetInvalid(set)
        THEN /\ lastCall' = Call("completeSet", <<exerciseIndex, setIndex>>, "Invalid Set")
             /\ UNCHANGED <<exercises, restTimer, isResting, timeouts>>
        ELSE /\ exercises' = completeSetExercises(exercises, exerciseIndex, setIndex)
             /\ restTimer' = REST_SECONDS
             /\ isResting' = TRUE
             /\ timeouts' = Append(timeouts, Closure)
             /\ lastCall' = Call("completeSet", <<exerciseIndex, setIndex>>, "Set Complete!")
  /\ UNCHANGED <<storeVars, shellVars, managerVars, currentExerciseIndex, sessionId,
                 intervalClosure, progressVars, exerciseVars>>

previousExercise ==
  /\ currentView = "workout"
  /\ hasCurrentExercise
  /\ currentExerciseIndex # 0
  /\ UserEvent
  /\ currentExerciseIndex' = IF currentExerciseIndex - 1 > 0 THEN currentExerciseIndex - 1 ELSE 0
  /\ lastCall' = Call("setCurrentExerciseIndex", <<currentExerciseIndex'>>, <<>>)
  /\ UNCHANGED <<storeVars, shellVars, managerVars, exercises, restTimer, isResting,
                 sessionId, intervalClosure, timeouts, progressVars, exerciseVars>>

nextExercise ==
  /\ currentView = "workout"
  /\ hasCurrentExercise
  /\ currentExerciseIndex # Len(exercises) - 1
  /\ UserEvent
  /\ currentExerciseIndex' = IF Len(exercises) - 1 < currentExerciseIndex + 1
                             THEN Len(exercises) - 1 ELSE currentExerciseIndex + 1
  /\ lastCall' = Call("setCurrentExerciseIndex", <<currentExerciseIndex'>>, <<>>)
  /\ UNCHANGED <<storeVars, shellVars, managerVars, exercises, restTimer, isResting,
                 sessionId, intervalClosure, timeouts, progressVars, exerciseVars>>

\* two countdowns running side by side
restTimerUpdaterByTwo(prev) == IF prev <= 2 THEN 0 ELSE prev - 2

\* a countdown that stands still
restTimerUpdaterStuck(prev) == prev

\* the updater handed to setRestTimer by the interval callback
restTimerUpdater(prev) == IF prev <= 1 THEN 0 ELSE prev - 1

\* one firing of the 1 s interval the rest-timer effect keeps while resting
restTimerTick ==
  /\ currentView = "workout"
  /\ isResting /\ restTimer > 0
  /\ restTimer' = restTimerUpdater(restTimer)
  /\ isResting' = IF restTimer <= 1 THEN FALSE ELSE isResting
  /\ lastCall' = Call("restTimerTick", <<>>, <<>>)
  /\ UNCHANGED <<storeVars, opsLeft, shellVars, managerVars, exercises, currentExerciseIndex,
                 sessionId, intervalClosure, timeouts, progressVars, exerciseVars>>

\* a pending setTimeout(autoSaveWorkout, 100) runs; equal delays run in the
\* order they were scheduled, and unmounting the tracker does not cancel them
autoSaveTimeout ==
  /\ timeouts # <<>>
  /\ ls' = autoSaveWorkout(ls, Head(timeouts), now)
  /\ timeouts' = Tail(timeouts)
  /\ lastCall' = Call("autoSaveTimeout", <<>>, <<>>)
  /\ UNCHANGED <<now, opsLeft, shellVars, managerVars, trackerVars, progressVars, exerciseVars>>

\* one firing of setInterval(() => autoSaveWorkout(), 10000), which the
\* teardown of the mount effect clears when the tracker unmounts
autoSaveInterval ==
  /\ currentView = "workout"
  /\ IsPresent(intervalClosure)
  /\ ls' = autoSaveWorkout(ls, Val(intervalClosure), now)
  /\ lastCall' = Call("autoSaveInterval", <<"setInterval", "autoSaveWorkout", 10000>>, <<>>)
  /\ UNCHANGED <<now, opsLeft, shellVars, managerVars, trackerVars, timeouts, progressVars, exerciseVars>>

\* the session record saveWorkout builds
SessionOf(exs, id, workoutType, clock) ==
  [id |-> id,
   date |-> clock,
   workoutType |-> workoutType,
   exercises |-> [e \in 1..Len(exs) |->
      [exerciseId |-> exs[e].id,
       name |-> exs[e].name,
       sets |-> [k \in 1..Len(exs[e].sets) |->
                   [weight |-> exs[e].sets[k].weight,
                    reps |-> exs[e].sets[k].reps,
                    completed |-> exs[e].sets[k].completed]]]],
   completed |-> TRUE]

\* an advance that falls back on the first split of the list
advanceActiveSplitOrFirst(st, clock) ==
  LET active == IF IsPresent(getActiveSplitRet(st)) THEN getActiveSplitRet(st)
                ELSE Some(getWorkoutSplitsRet(st)[1])
  IN updateSplit(st,
       [Val(active) EXCEPT
          !.currentDay = JsMod(Val(active).currentDay + 1, Len(Val(active).days)),
          !.lastWorkoutDate = clock])

\* "Update current split day" of saveWorkout
advanceActiveSplit(st, clock) ==
  LET active == getActiveSplitRet(st)
      st1 == getActiveSplit(st)
  IN IF IsPresent(active)
     THEN updateSplit(st1,
            [Val(active) EXCEPT
               !.currentDay = JsMod(Val(active).currentDay + 1, Len(Val(active).days)),
               !.lastWorkoutDate = clock])
     ELSE st1

\* saveWorkout up to, and without, the onComplete() call
saveWorkoutStore(st, session, workoutType, clock) ==
  LET st1 == saveWorkoutSession(st, session)
      st2 == updateStreak(st1)
      st3 == advanceActiveSplit(st2, clock)
  IN clearAutoSave(st3, AutoSaveKey(workoutType))

\* Index.handleCompleteWorkout: the write to 'workoutSplit'
handleCompleteWorkout(st, clock) ==
  IF IsPresent(st.workoutSplit)
  THEN LET split == Val(st.workoutSplit)
       IN [st EXCEPT !.workoutSplit =
             Some(JsonSplit([split EXCEPT
                    !.currentDay = JsMod(split.currentDay + 1, Len(split.days)),
                    !.lastWorkoutDate = clock]))]
  ELSE st

\* the Save button (rendered only when there is a current exercise):
\* saveWorkout, whose onComplete is Index.handleCompleteWorkout, which
\* returns to the dashboard
saveWorkout ==
  /\ currentView = "workout"
  /\ hasCurrentExercise
  /\ UserEvent
  /\ LET session == SessionOf(exercises, sessionId, currentWorkoutType, now)
         st1 == saveWorkoutStore(ls, session, currentWorkoutType, now)
     IN /\ ls' = handleCompleteWorkout(st1, now)
        /\ lastCall' = Call("saveWorkout", <<>>, <<>>)
  /\ currentView' = "dashboard"
  /\ currentSplit' = DashboardLoad(ls')
  /\ TrackerUnmounted
  /\ UNCHANGED <<now, currentWorkoutType, managerVars, timeouts, progressVars, exerciseVars>>

\* ------------------------------------------------------------------------
\* ProgressTracker
\* ------------------------------------------------------------------------
progressExercises ==
  << "Bench Press", "Deadlift", "Squats", "Overhead Press", "Pull-ups",
     "Barbell Rows", "Incline Dumbbell Press", "Romanian Deadlift" >>

\* a collection that takes every stored record, whatever its name
loadProgressLiftsAll(st) ==
  [n \in DOMAIN st.lastWorkout |->
     [weight |-> st.lastWorkout[n].weight, reps |-> st.lastWorkout[n].reps]]

\* loadProgressData: the lifts it collects from the 'lastWorkout-<name>' keys
loadProgressLifts(st) ==
  [n \in {progressExercises[i] : i \in 1..Len(progressExercises)} \cap DOMAIN st.lastWorkout |->
     [weight |-> st.lastWorkout[n].weight, reps |-> st.lastWorkout[n].reps]]

\* Math.round(weight * (1 + reps / 30)); Math.round rounds halves up.  The
\* integer form agrees with the double computation on WeightValues x RepsValues.
calculateOneRepMax(weight, reps) == (2 * weight * (30 + reps) + 30) \div 60

\* a label that knows no tier below the momentum tier
getStreakMessageNoStarter ==
  IF streak >= 30 THEN "Champion Level!"
  ELSE IF streak >= 14 THEN "On Fire!"
  ELSE IF streak >= 7 THEN "Building Momentum!"
  ELSE "Every Journey Begins!"

getStreakColor ==
  IF streak >= 30 THEN "streak-gold"
  ELSE IF streak >= 14 THEN "success"
  ELSE IF streak >= 7 THEN "accent"
  ELSE "primary"

\* the labels, without their trailing emoji
getStreakMessage ==
  IF streak >= 30 THEN "Champion Level!"
  ELSE IF streak >= 14 THEN "On Fire!"
  ELSE IF streak >= 7 THEN "Building Momentum!"
  ELSE IF streak >= 3 THEN "Getting Started!"
  ELSE "Every Journey Begins!"

\* the '50 Workouts' achievement tile is lit
fiftyWorkoutsUnlocked == totalWorkouts >= 50

onViewProgress ==
  /\ currentView = "dashboard"
  /\ UserEvent
  /\ currentView' = "progress"
  /\ streak' = IF IsPresent(ls.workoutStreak) THEN Val(ls.workoutStreak) ELSE 0
  /\ strongestLifts' = loadProgressLifts(ls)
  /\ totalWorkouts' = Cardinality(DOMAIN loadProgressLifts(ls))
  /\ lastCall' = Call("loadProgressData", <<>>, <<>>)
  /\ UNCHANGED <<storeVars, currentWorkoutType, currentSplit, managerVars, trackerVars,
                 timeouts, exerciseVars>>

progressOnBack ==
  /\ currentView = "progress"
  /\ UserEvent
  /\ currentView' = "dashboard"
  /\ currentSplit' = DashboardLoad(ls)
  /\ ProgressUnmounted
  /\ lastCall' = Call("onBack", <<"progress">>, <<>>)
  /\ UNCHANGED <<storeVars, currentWorkoutType, managerVars, trackerVars, timeouts,
                 exerciseVars>>

\* ------------------------------------------------------------------------
\* Specification of the application
\* ------------------------------------------------------------------------
\* ------------------------------------------------------------------------
\* ExerciseManager (template editor of one workout type; the type is a prop,
\* held in currentWorkoutType while the view is "exercises")
\* ------------------------------------------------------------------------
\* s.toLowerCase().replace(/\s+/g, '-') on the strings the model uses
Slug(s) ==
  CASE s = "Push" -> "push"
    [] s = "Arms" -> "arms"
    [] s = "Curls" -> "curls"
    [] s = " " -> "-"
    [] OTHER -> s

ExerciseManagerKey(workoutType) == <<"exercise-manager", workoutType>>

\* loadTemplate: the template it puts into the component state
loadTemplateRet(st, workoutType) ==
  LET workoutTemplate == getWorkoutTemplateRet(st, workoutType)
  IN IF IsPresent(workoutTemplate) THEN Val(workoutTemplate)
     ELSE [id |-> Slug(workoutType), name |-> workoutType, exercises |-> <<>>]

\* saveTemplate: the two writes
saveTemplate(st, workoutType, updatedTemplate, clock) ==
  autoSave(updateWorkoutTemplate(st, workoutType, updatedTemplate),
           ExerciseManagerKey(workoutType), JsonTemplate(updatedTemplate), clock)

openAddDialog ==
  /\ currentView = "exercises"
  /\ IsPresent(templateState)
  /\ ~showAddDialog
  /\ UserEvent
  /\ showAddDialog' = TRUE
  /\ lastCall' = Call("setShowAddDialog", <<TRUE>>, <<>>)
  /\ UNCHANGED <<storeVars, shellVars, managerVars, trackerVars, timeouts, progressVars,
                 templateState, newExerciseName, newExerciseSets>>

\* the Cancel button of the dialog
cancelAddDialog ==
  /\ currentView = "exercises"
  /\ showAddDialog
  /\ UserEvent
  /\ showAddDialog' = FALSE
  /\ newExerciseName' = ""
  /\ newExerciseSets' = 3
  /\ lastCall' = Call("setShowAddDialog", <<FALSE>>, <<>>)
  /\ UNCHANGED <<storeVars, shellVars, managerVars, trackerVars, timeouts, progressVars,
                 templateState>>

setNewExerciseName(value) ==
  /\ currentView = "exercises"
  /\ showAddDialog
  /\ value # newExerciseName
  /\ UserEvent
  /\ newExerciseName' = value
  /\ lastCall' = Call("setNewExerciseName", <<value>>, <<>>)
  /\ UNCHANGED <<storeVars, shellVars, managerVars, trackerVars, timeouts, progressVars,
                 templateState, showAddDialog, newExerciseSets>>

\* the "+" button: setNewExerciseSets(Math.min(10, newExerciseSets + 1))
incrementExerciseSets ==
  /\ currentView = "exercises"
  /\ showAddDialog
  /\ UserEvent
  /\ newExerciseSets' = IF newExerciseSets + 1 < 10 THEN newExerciseSets + 1 ELSE 10
  /\ lastCall' = Call("setNewExerciseSets", <<newExerciseSets'>>, <<>>)
  /\ UNCHANGED <<storeVars, shellVars, managerVars, trackerVars, timeouts, progressVars,
                 templateState, showAddDialog, newExerciseName>>

\* a validation that refuses the empty string only
addExerciseInvalidEmptyOnly == newExerciseName = ""

\* !newExerciseName.trim()
addExerciseInvalid == Trim(newExerciseName) = ""

\* the Add button of the dialog (no exercise is being edited)
addExercise ==
  /\ currentView = "exercises"
  /\ showAddDialog
  /\ UserEvent
  /\ IF addExerciseInvalid
     THEN /\ lastCall' = Call("addExercise", <<newExerciseName>>, "Invalid Exercise")
          /\ UNCHANGED <<ls, now, exerciseVars>>
     ELSE IF ~IsPresent(templateState)
     THEN /\ lastCall' = Call("addExercise", <<newExerciseName>>, <<>>)
          /\ UNCHANGED <<ls, now, exerciseVars>>
     ELSE LET newExercise == [id |-> <<now + 1, Slug(newExerciseName)>>,
                              name |-> Trim(newExerciseName),
                              sets |-> newExerciseSets]
              updatedTemplate == [Val(templateState) EXCEPT
                                    !.exercises = Append(@, newExercise)]
          IN /\ now' = now + 1
             /\ ls' = saveTemplate(ls, currentWorkoutType, updatedTemplate, now')
             /\ templateState' = Some(updatedTemplate)
             /\ showAddDialog' = FALSE
             /\ newExerciseName' = ""
             /\ newExerciseSets' = 3
             /\ lastCall' = Call("addExercise", <<newExerciseName>>, "Exercises Updated!")
  /\ UNCHANGED <<shellVars, managerVars, trackerVars, timeouts, progressVars>>

\* disabled={!storage.getWorkoutTemplates()[workoutType]} of the reset button
resetButtonEnabled == HasKey(getWorkoutTemplatesRet(ls), currentWorkoutType)

\* the "Reset to Default" button
resetToDefault ==
  /\ currentView = "exercises"
  /\ IsPresent(templateState)
  /\ resetButtonEnabled
  /\ UserEvent
  /\ LET templates == getWorkoutTemplatesRet(ls)
         st1 == getWorkoutTemplates(ls)
     IN IF HasKey(templates, currentWorkoutType)
        THEN LET defaultTemplate == templates[currentWorkoutType]
             IN /\ ls' = saveTemplate(st1, currentWorkoutType, defaultTemplate, now)
                /\ templateState' = Some(defaultTemplate)
                /\ lastCall' = Call("resetToDefault", <<currentWorkoutType>>, "Reset Complete")
        ELSE /\ ls' = st1
             /\ lastCall' = Call("resetToDefault", <<currentWorkoutType>>, <<>>)
             /\ UNCHANGED templateState
  /\ UNCHANGED <<now, shellVars, managerVars, trackerVars, timeouts, progressVars,
                 showAddDialog, newExerciseName, newExerciseSets>>

SplitNameValues == {"", "Arms"}
DayValues == {"", "Legs"}
SplitIds == {1, 2, 3} \cup ((StartTime + 1)..(StartTime + MaxOps))

NextDashboard ==
  \/ handleStartWorkout
  \/ trackerOnBack
  \/ saveWorkout
  \/ onViewProgress
  \/ progressOnBack

NextManager ==
  \/ onViewSplit
  \/ splitOnBack
  \/ \E id \in SplitIds : setActiveWorkoutSplit(id)
  \/ \E id \in SplitIds : skipDay(id)
  \/ \E id \in SplitIds : deleteSplit(id)
  \/ openCreateDialog
  \/ cancelCreateDialog
  \/ \E v \in SplitNameValues : setNewSplitName(v)
  \/ \E i \in 0..(MaxFormDays - 1), v \in DayValues : updateSplitDay(i, v)
  \/ addSplitDay
  \/ \E i \in 0..(MaxFormDays - 1) : removeSplitDay(i)
  \/ createSplit

NextTracker ==
  \/ \E s \in 0..(MaxEditSets - 1), v \in WeightValues :
       updateSet(currentExerciseIndex, s, "weight", v)
  \/ \E s \in 0..(MaxEditSets - 1), v \in RepsValues :
       updateSet(currentExerciseIndex, s, "reps", v)
  \/ \E s \in 0..(MaxSetCount - 1) : completeSet(currentExerciseIndex, s)
  \/ previousExercise
  \/ nextExercise
  \/ autoSaveTimeout

\* The shell with the dashboard, the split manager, the progress view and
\* the start and the finalization of sessions: every handler that writes a
\* split, from a fresh browser profile.
Next == NextDashboard \/ NextManager

Spec == Init /\ [][Next]_vars

\* A freshly loaded page over a given store
InitWith(store, budget) ==
  /\ ls = store
  /\ now = StartTime
  /\ opsLeft = budget
  /\ currentView = "dashboard"
  /\ currentWorkoutType = ""
  /\ currentSplit = DashboardLoad(store)
  /\ splits = <<>>
  /\ activeSplit = Absent
  /\ newSplitName = ""
  /\ newSplitDays = <<"">>
  /\ showCreateDialog = FALSE
  /\ exercises = <<>>
  /\ currentExerciseIndex = 0
  /\ restTimer = 0
  /\ isResting = FALSE
  /\ sessionId = 0
  /\ timeouts = <<>>
  /\ intervalClosure = Absent
  /\ streak = 0
  /\ totalWorkouts = 0
  /\ strongestLifts = EmptyDict
  /\ ExerciseManagerUnmounted
  /\ lastCall = Call("init", <<>>, <<>>)

\* the store a first visit of the split manager leaves (loadSplits
\* activates the first default split), and the store after n skipDay
\* clicks on the split with the given id
storeAfterLoadSplits == loadSplitsStore(emptyStorage)

RECURSIVE storeAfterSkips(_, _, _)
storeAfterSkips(st, splitId, n) ==
  IF n = 0 \/ ~Evaluated(st) THEN st
  ELSE storeAfterSkips(
         updateSplit(st, skipDaySplit(Val(FindById(getWorkoutSplitsRet(st), splitId)))),
         splitId, n - 1)

\* The session recorder behind the dashboard, on the last day of the default
\* split: the first finalization wraps the split around, the next one does not.
SessionStores == {storeAfterSkips(storeAfterLoadSplits, 1, 6)}

InitSession == \E store \in SessionStores : InitWith(store, MaxSessionOps)

NextSession == NextDashboard \/ NextTracker

SpecSession == InitSession /\ [][NextSession]_vars

\* The session recorder with its rest countdown
InitRest == InitWith(storeAfterLoadSplits, MaxRestOps)

NextRest == NextSession \/ restTimerTick

SpecRest == InitRest /\ [][NextRest]_vars

\* the same, with the browser's timer: while the tracker is mounted and the
\* effect keeps its interval, the interval callback runs
SpecRestFair == InitRest /\ [][NextRest]_vars /\ WF_vars(restTimerTick)

\* ------------------------------------------------------------------------
\* The two forms with a validation: the create dialog of the split manager,
\* reached from the dashboard, and the add dialog of an exercise manager
\* mounted for a stored or for a new workout type (useEffect: loadTemplate)
\* ------------------------------------------------------------------------
FormNameValues == {"", " ", "Arms"}
FormDayValues == {"", " ", "Legs"}
ExerciseNameValues == {"", " ", "Curls"}
ManagedWorkoutTypes == {"Push", "Arms"}

InitExerciseManager(workoutType) ==
  /\ ls = getWorkoutTemplate(emptyStorage, workoutType)
  /\ now = StartTime
  /\ opsLeft = MaxFormOps
  /\ currentView = "exercises"
  /\ currentWorkoutType = workoutType
  /\ currentSplit = dashboardDefaultSplit
  /\ splits = <<>>
  /\ activeSplit = Absent
  /\ newSplitName = ""
  /\ newSplitDays = <<"">>
  /\ showCreateDialog = FALSE
  /\ exercises = <<>>
  /\ currentExerciseIndex = 0
  /\ restTimer = 0
  /\ isResting = FALSE
  /\ sessionId = 0
  /\ timeouts = <<>>
  /\ intervalClosure = Absent
  /\ streak = 0
  /\ totalWorkouts = 0
  /\ strongestLifts = EmptyDict
  /\ templateState = Some(loadTemplateRet(emptyStorage, workoutType))
  /\ showAddDialog = FALSE
  /\ newExerciseName = ""
  /\ newExerciseSets = 3
  /\ lastCall = Call("loadTemplate", <<workoutType>>, <<>>)

InitForms ==
  \/ InitWith(emptyStorage, MaxFormOps)
  \/ \E workoutType \in ManagedWorkoutTypes : InitExerciseManager(workoutType)

NextForms ==
  \/ onViewSplit
  \/ openCreateDialog
  \/ cancelCreateDialog
  \/ \E v \in FormNameValues : setNewSplitName(v)
  \/ \E i \in 0..(MaxFormDays - 1), v \in FormDayValues : updateSplitDay(i, v)
  \/ addSplitDay
  \/ createSplit
  \/ openAddDialog
  \/ cancelAddDialog
  \/ \E v \in ExerciseNameValues : setNewExerciseName(v)
  \/ incrementExerciseSets
  \/ addExercise
  \/ resetToDefault

SpecForms == InitForms /\ [][NextForms]_vars

\* ------------------------------------------------------------------------
\* The WorkoutStorage API called directly, with arguments drawn from small
\* sets of the shapes its callers pass
\* ------------------------------------------------------------------------
TemplateNames == {"Push", "Arms"}

TemplateInputs ==
  { [id |-> "push", name |-> "Push", exercises |->
       << Ex("bench-press", "Bench Press", 5) >>],
    [id |-> "arms", name |-> "Arms", exercises |-> <<>>],
    [id |-> "arms", name |-> "Arms", exercises |->
       << Ex("1001-curls", "Curls", 3), Ex("dips", "Dips", 1) >>] }

SplitInputs ==
  { [id |-> 1, name |-> "Push/Pull/Legs", days |-> defaultSplits[1].days,
     currentDay |-> 1, lastWorkoutDate |-> StartTime],
    [id |-> 3, name |-> "Full Body", days |-> defaultSplits[3].days,
     currentDay |-> 6, lastWorkoutDate |-> Null],
    [id |-> StartTime, name |-> "Arms", days |-> <<"Arms">>,
     currentDay |-> 0, lastWorkoutDate |-> Null] }

SessionSets(w, r, c) == << [weight |-> w, reps |-> r, completed |-> c],
                           [weight |-> w - 40, reps |-> r + 3, completed |-> c],
                           [weight |-> w - 20, reps |-> r - 2, completed |-> FALSE] >>

SessionInputs ==
  { [id |-> i, date |-> StartTime, workoutType |-> "Push",
     exercises |-> << [exerciseId |-> "bench-press", name |-> "Bench Press",
                       sets |-> SessionSets(w, 5, c)] >>,
     completed |-> TRUE] : i \in {StartTime, StartTime + 1}, w \in {100}, c \in BOOLEAN }

AutoSaveKeys == {AutoSaveKey("Push"), <<"exercise-manager", "Push">>}
AutoSavePayloads == {"payload-1", "payload-2"}
ClockSteps == {1, DAY_MS - 1, DAY_MS + 1}

StoreCall(name, args, result) ==
  /\ UserEvent
  /\ lastCall' = Call(name, args, result)
  /\ UNCHANGED <<shellVars, managerVars, trackerVars, timeouts, progressVars, exerciseVars>>

callGetWorkoutTemplates ==
  /\ StoreCall("getWorkoutTemplates", <<IsPresent(ls.workoutTemplates)>>,
               getWorkoutTemplatesRet(ls))
  /\ ls' = getWorkoutTemplates(ls)
  /\ UNCHANGED now

callGetWorkoutTemplate(workoutType) ==
  /\ StoreCall("getWorkoutTemplate", <<workoutType>>, getWorkoutTemplateRet(ls, workoutType))
  /\ ls' = getWorkoutTemplate(ls, workoutType)
  /\ UNCHANGED now

callUpdateWorkoutTemplate(workoutType, template) ==
  /\ StoreCall("updateWorkoutTemplate", <<workoutType, template>>, <<>>)
  /\ ls' = updateWorkoutTemplate(ls, workoutType, template)
  /\ UNCHANGED now

callSaveWorkoutSession(session) ==
  /\ StoreCall("saveWorkoutSession", <<session>>, <<>>)
  /\ ls' = saveWorkoutSession(ls, session)
  /\ UNCHANGED now

callUpdateSplit(updatedSplit) ==
  /\ StoreCall("updateSplit",
               <<updatedSplit, FindIndexById(getWorkoutSplitsRet(ls), updatedSplit.id) >= 0>>,
               <<>>)
  /\ ls' = updateSplit(ls, updatedSplit)
  /\ UNCHANGED now

callSetActiveSplit(splitId) ==
  /\ StoreCall("setActiveSplit", <<splitId>>, <<>>)
  /\ ls' = setActiveSplit(ls, splitId)
  /\ UNCHANGED now

callAutoSave(key, data) ==
  /\ StoreCall("autoSave", <<key, data>>, <<>>)
  /\ ls' = autoSave(ls, key, data, now)
  /\ UNCHANGED now

callGetAutoSave(key) ==
  /\ StoreCall("getAutoSave", <<key, HasKey(ls.autosave, key)>>, getAutoSaveRet(ls, key, now))
  /\ UNCHANGED <<ls, now>>

callClearAutoSave(key) ==
  /\ HasKey(ls.autosave, key)
  /\ StoreCall("clearAutoSave", <<key>>, <<>>)
  /\ ls' = clearAutoSave(ls, key)
  /\ UNCHANGED now

\* time passes between two calls
clockAdvance(d) ==
  /\ StoreCall("clock", <<d>>, <<>>)
  /\ now' = now + d
  /\ UNCHANGED ls

NextStore ==
  \/ callGetWorkoutTemplates
  \/ \E n \in TemplateNames : callGetWorkoutTemplate(n)
  \/ \E t \in TemplateInputs : callUpdateWorkoutTemplate(t.name, t)
  \/ \E x \in SessionInputs : callSaveWorkoutSession(x)
  \/ \E u \in SplitInputs : callUpdateSplit(u)
  \/ \E id \in {1, 2} : callSetActiveSplit(id)
  \/ \E k \in AutoSaveKeys, d \in AutoSavePayloads : callAutoSave(k, d)
  \/ \E k \in AutoSaveKeys : callGetAutoSave(k)
  \/ \E k \in AutoSaveKeys : callClearAutoSave(k)
  \/ \E d \in ClockSteps : clockAdvance(d)

InitStore == InitWith(emptyStorage, MaxStoreOps)

SpecStore == InitStore /\ [][NextStore]_vars

\* ------------------------------------------------------------------------
\* The progress view over the stores that n finalized sessions leave in
\* 'workoutStreak'
\* ------------------------------------------------------------------------
RECURSIVE storeAfterStreak(_, _)
storeAfterStreak(st, n) ==
  IF n = 0 \/ ~Evaluated(st) THEN st ELSE storeAfterStreak(updateStreak(st), n - 1)

InitProgress ==
  \E n \in 0..MaxStreak : InitWith(storeAfterStreak(emptyStorage, n), MaxProgressOps)

NextProgress == onViewProgress \/ progressOnBack

SpecProgress == InitProgress /\ [][NextProgress]_vars

\* ------------------------------------------------------------------------
\* The start of a session over the stores earlier sessions leave: with and
\* without exercise history, with and without an auto-saved payload
\* ------------------------------------------------------------------------
legsStore == storeAfterSkips(storeAfterLoadSplits, 1, 6)

\* a Legs session started at the given time, its first set completed with
\* 100 x 5, finalized; then two skipped days, to the next Legs day
storeAfterSession(st, clock) ==
  LET exs == completeSetExercises(
               updateSetExercises(
                 updateSetExercises(initializeWorkoutExercises(st, "Legs", clock),
                                    0, 0, "weight", 100),
                 0, 0, "reps", 5),
               0, 0)
      st1 == initializeWorkoutStore(st, "Legs", clock)
      st2 == saveWorkoutStore(st1, SessionOf(exs, clock, "Legs", clock), "Legs", clock)
  IN storeAfterSkips(handleCompleteWorkout(st2, clock), 1, 2)

historyStore == storeAfterSession(legsStore, StartTime - 3)

\* a Legs session started at the given time and left with the back button,
\* after an auto-save of the render that showed the second exercise and the
\* weight w in the first set of the first
storeAfterAutoSave(st, w, clock) ==
  autoSaveWorkout(initializeWorkoutStore(st, "Legs", clock),
                  [exercises |-> updateSetExercises(
                                   initializeWorkoutExercises(st, "Legs", clock),
                                   0, 0, "weight", w),
                   currentExerciseIndex |-> 1,
                   sessionId |-> clock,
                   workoutType |-> "Legs"],
                  clock)

InitStart ==
  \/ InitWith(legsStore, MaxStartOps)
  \/ InitWith(historyStore, MaxStartOps)
  \/ InitWith(storeAfterAutoSave(legsStore, 100, StartTime - 1), MaxStartOps)
  \/ InitWith(storeAfterAutoSave(historyStore, 0, StartTime - 1), MaxStartOps)

NextStart ==
  \/ handleStartWorkout
  \/ trackerOnBack
  \/ \E d \in ClockSteps : clockAdvance(d)

SpecStart == InitStart /\ [][NextStart]_vars

\* ------------------------------------------------------------------------
\* The session recorder with both of its auto-save timers: the callbacks of
\* setTimeout(autoSaveWorkout, 100) and the 10 s interval of the mount effect
\* ------------------------------------------------------------------------
InitAutoSave == InitWith(legsStore, MaxAutoSaveOps)

NextAutoSave == NextSession \/ autoSaveInterval

SpecAutoSave == InitAutoSave /\ [][NextAutoSave]_vars

\* ------------------------------------------------------------------------
\* The session recorder with the texts typed into its number inputs, over a
\* store without and a store with exercise history (the sets of an exercise
\* with history start from its last weight and reps)
\* ------------------------------------------------------------------------
InitEntry ==
  \/ InitWith(legsStore, MaxEntryOps)
  \/ InitWith(historyStore, MaxEntryOps)

NextEntry ==
  \/ handleStartWorkout
  \/ trackerOnBack
  \/ saveWorkout
  \/ \E s \in 0..(MaxEditSets - 1), text \in InputTexts : weightOnChange(s, text)
  \/ \E s \in 0..(MaxEditSets - 1), text \in InputTexts : repsOnChange(s, text)
  \/ \E s \in 0..(MaxSetCount - 1) : completeSet(currentExerciseIndex, s)
  \/ previousExercise
  \/ nextExercise
  \/ autoSaveTimeout

SpecEntry == InitEntry /\ [][NextEntry]_vars

\* ------------------------------------------------------------------------
\* The rest countdown in a session whose sets start from the exercise
\* history, so that a set can be completed while the rest of the set before
\* is still running
\* ------------------------------------------------------------------------
InitRestart == InitWith(historyStore, MaxRestartOps)

NextRestart == NextRest

SpecRestart == InitRestart /\ [][NextRestart]_vars

\* ------------------------------------------------------------------------
\* The progress view over the 'lastWorkout-<name>' records.  They are
\* written by the saveWorkout of the earlier revision of the recorder
\* (components/WorkoutTracker.tsx), one per exercise with a completed set,
\* holding its last completed set.
\* ------------------------------------------------------------------------
legacySaveWorkout(st, exs, clock) ==
  LET done == {i \in 1..Len(exs) : CountCompleted(exs[i].sets) > 0}
      names == {exs[i].name : i \in done}
      lastSet(i) ==
        LET k == CHOOSE k \in 1..Len(exs[i].sets) :
                   /\ exs[i].sets[k].completed
                   /\ \A k2 \in (k + 1)..Len(exs[i].sets) : ~exs[i].sets[k2].completed
        IN exs[i].sets[k]
      lastOf(n) == CHOOSE i \in done :
                     exs[i].name = n /\ \A i2 \in done : exs[i2].name = n => i2 <= i
  IN [st EXCEPT !.lastWorkout =
        [n \in names \cup DOMAIN st.lastWorkout |->
           IF n \in names
           THEN [weight |-> lastSet(lastOf(n)).weight, reps |-> lastSet(lastOf(n)).reps,
                 date |-> clock]
           ELSE st.lastWorkout[n]]]

\* the eight names the progress view looks up, and two template exercises
\* it does not look up
RecordedExercises == progressExercises \o << "Lateral Raises", "Calf Raises" >>

\* sessions of the earlier recorder in which the exercises picked by done
\* have a completed set of 100 x 5
RecordedSession(done) ==
  [i \in 1..Len(RecordedExercises) |->
     [name |-> RecordedExercises[i],
      sets |-> << [weight |-> 100, reps |-> 5, completed |-> done[i]],
                  [weight |-> 0, reps |-> 0, completed |-> FALSE] >>]]

InitRecords ==
  \E done \in [1..Len(RecordedExercises) -> BOOLEAN] :
    InitWith(legacySaveWorkout(emptyStorage, RecordedSession(done), StartTime - 1),
             MaxProgressOps)

NextRecords == NextProgress

SpecRecords == InitRecords /\ [][NextRecords]_vars

\* ------------------------------------------------------------------------
\* The finalization of a session by the recorder mounted for a workout type,
\* over stores with and without an active split and with and without
\* exercise history.  The shell starts a session only with a 'workoutSplit'
\* record stored; the recorder itself takes its workout type as a prop.
\* ------------------------------------------------------------------------
\* the store after the active split with the given id was deleted
storeAfterDeleteActive(st, splitId) ==
  deleteSplitStore(st, FilterOutId(getWorkoutSplitsRet(st), splitId), TRUE)

\* a Legs session started at the given time, the first set of its second
\* exercise completed with 100 x 5, finalized
storeAfterSecondExercise(st, clock) ==
  LET exs == completeSetExercises(
               updateSetExercises(
                 updateSetExercises(initializeWorkoutExercises(st, "Legs", clock),
                                    1, 0, "weight", 100),
                 1, 0, "reps", 5),
               1, 0)
      st1 == initializeWorkoutStore(st, "Legs", clock)
      st2 == saveWorkoutStore(st1, SessionOf(exs, clock, "Legs", clock), "Legs", clock)
  IN handleCompleteWorkout(st2, clock)

secondHistoryStore == storeAfterSecondExercise(legsStore, StartTime - 3)

FinalizeStores ==
  { emptyStorage,
    secondHistoryStore,
    storeAfterDeleteActive(secondHistoryStore, 1) }

\* WorkoutTracker mounted: useState initial values, then the mount effect
InitTracker(store, workoutType, budget) ==
  /\ ls = initializeWorkoutStore(store, workoutType, StartTime)
  /\ now = StartTime
  /\ opsLeft = budget
  /\ currentView = "workout"
  /\ currentWorkoutType = workoutType
  /\ currentSplit = DashboardLoad(store)
  /\ splits = <<>>
  /\ activeSplit = Absent
  /\ newSplitName = ""
  /\ newSplitDays = <<"">>
  /\ showCreateDialog = FALSE
  /\ exercises = initializeWorkoutExercises(store, workoutType, StartTime)
  /\ currentExerciseIndex = initializeWorkoutIndex(store, workoutType, StartTime)
  /\ restTimer = 0
  /\ isResting = FALSE
  /\ sessionId = StartTime
  /\ timeouts = <<>>
  /\ intervalClosure = Some([exercises |-> <<>>, currentExerciseIndex |-> 0,
                             sessionId |-> StartTime, workoutType |-> workoutType])
  /\ streak = 0
  /\ totalWorkouts = 0
  /\ strongestLifts = EmptyDict
  /\ ExerciseManagerUnmounted
  /\ lastCall = Call("initializeWorkout", <<workoutType>>, <<>>)

InitFinalize == \E store \in FinalizeStores : InitTracker(store, "Legs", MaxFinalizeOps)

NextFinalize ==
  \/ \E s \in 0..(MaxEditSets - 1), v \in WeightValues :
       updateSet(currentExerciseIndex, s, "weight", v)
  \/ \E s \in 0..(MaxEditSets - 1), v \in RepsValues :
       updateSet(currentExerciseIndex, s, "reps", v)
  \/ \E s \in 0..(MaxSetCount - 1) : completeSet(currentExerciseIndex, s)
  \/ nextExercise
  \/ autoSaveTimeout
  \/ saveWorkout

SpecFinalize == InitFinalize /\ [][NextFinalize]_vars

\* ------------------------------------------------------------------------
\* Properties
\* ------------------------------------------------------------------------
\* the step taken is the user event or storage call named opName
StepOf(opName) == opsLeft' = opsLeft - 1 /\ lastCall'.op = opName

storedSplits == getWorkoutSplitsRet(ls)
storedSessions == getWorkoutSessionsRet(ls)

\* the completed sets of a stored session, as <<exercise name, weight, reps>>
CompletedSetsOf(session) ==
  UNION { { <<session.exercises[e].name, session.exercises[e].sets[k].weight,
              session.exercises[e].sets[k].reps>> :
              k \in { k2 \in 1..Len(session.exercises[e].sets) :
                        session.exercises[e].sets[k2].completed } } :
          e \in 1..Len(session.exercises) }

\* C1: finalizing a session (saveWorkout) raises the stored streak by exactly
\* one and moves the active split's currentDay, as getActiveSplit reports it,
\* to (currentDay + 1) mod N, N the number of its days, whatever the number of
\* sets marked completed, zero included.
C1_SaveAdvancesStreakAndDay ==
  [][ (StepOf("saveWorkout") /\ IsPresent(getActiveSplitRet(ls))) =>
        /\ getStreakRet(ls') = getStreakRet(ls) + 1
        /\ IsPresent(getActiveSplitRet(ls'))
        /\ LET before == Val(getActiveSplitRet(ls))
               after == Val(getActiveSplitRet(ls'))
           IN /\ after.id = before.id
              /\ after.currentDay = (before.currentDay + 1) % Len(before.days) ]_vars

\* a session without one completed set was finalized on the last day of the
\* active split, and the split is back on its first day
C1_Witness ==
  /\ lastCall.op = "saveWorkout"
  /\ getStreakRet(ls) = 1
  /\ \E i \in 1..Len(storedSessions) : CompletedSetsOf(storedSessions[i]) = {}
  /\ IsPresent(getActiveSplitRet(ls))
  /\ Val(getActiveSplitRet(ls)).currentDay = 0
  /\ Val(getActiveSplitRet(ls)).lastWorkoutDate # Null

\* C2: whenever an active split id is stored, the 'workoutSplit' copy equals
\* the entry of the stored split list with that id, after any sequence of
\* activate, skip day, create, delete and session completion.
C2_MirrorEqualsListEntry ==
  IsPresent(ls.activeSplit) =>
    /\ IsPresent(getActiveSplitRet(ls))
    /\ ls.workoutSplit = getActiveSplitRet(ls)

\* n advances of a split, as skipDay computes them
RECURSIVE AdvanceTimes(_, _)
AdvanceTimes(split, n) ==
  IF n = 0 THEN split ELSE AdvanceTimes(skipDaySplit(split), n - 1)

C3_InRange ==
  /\ \A i \in 1..Len(storedSplits) :
       /\ Len(storedSplits[i].days) >= 1
       /\ storedSplits[i].currentDay \in 0..(Len(storedSplits[i].days) - 1)
       /\ AdvanceTimes(storedSplits[i], Len(storedSplits[i].days)).currentDay
            = storedSplits[i].currentDay
  /\ IsPresent(ls.workoutSplit) =>
       Val(ls.workoutSplit).currentDay \in 0..(Len(Val(ls.workoutSplit).days) - 1)

C3_Advance ==
  /\ StepOf("skipDay") =>
       LET before == FindById(storedSplits, lastCall'.args[1])
           after == FindById(getWorkoutSplitsRet(ls'), lastCall'.args[1])
       IN IsPresent(before) =>
            /\ IsPresent(after)
            /\ Val(after).currentDay
                 = (Val(before).currentDay + 1) % Len(Val(before).days)
  /\ (StepOf("saveWorkout") /\ IsPresent(getActiveSplitRet(ls))) =>
       /\ IsPresent(getActiveSplitRet(ls'))
       /\ Val(getActiveSplitRet(ls')).currentDay
            = (Val(getActiveSplitRet(ls)).currentDay + 1)
                % Len(Val(getActiveSplitRet(ls)).days)

\* C3: each advance of a split (a skipped day or a completed session) sets
\* currentDay to (currentDay + 1) mod N for a split of N >= 1 days, so that
\* currentDay stays in 0..N-1 in every reachable state and N advances in a
\* row return it to the value it started from.
C3_DayAdvancesCyclically == []C3_InRange /\ [][C3_Advance]_vars

\* a skipped day took a split of several days from its last day to its first
C3_Witness ==
  /\ lastCall.op = "skipDay"
  /\ \E i \in 1..Len(storedSplits) :
       /\ storedSplits[i].id = lastCall.args[1]
       /\ Len(storedSplits[i].days) > 1
       /\ storedSplits[i].currentDay = 0

\* C4: completeSet on a set whose weight is 0 or whose reps are 0 is
\* rejected: the set stays not completed, no other set changes, and the rest
\* countdown is neither started nor restarted.
C4_InvalidSetRejected ==
  [][ StepOf("completeSet") =>
        LET set == exercises[lastCall'.args[1] + 1].sets[lastCall'.args[2] + 1]
        IN (set.weight = 0 \/ set.reps = 0) =>
             /\ exercises' = exercises
             /\ ~exercises'[lastCall'.args[1] + 1].sets[lastCall'.args[2] + 1].completed
             /\ restTimer' = restTimer
             /\ isResting' = isResting ]_vars

\* a set was rejected while the countdown of the set before it was running
C4_Witness ==
  /\ lastCall.op = "completeSet"
  /\ lastCall.result = "Invalid Set"
  /\ isResting
  /\ restTimer \in 1..(REST_SECONDS - 1)
  /\ ~exercises[lastCall.args[1] + 1].sets[lastCall.args[2] + 1].completed

\* C5: deleting a split is rejected when exactly one split remains, so the
\* stored split list is never empty.
C5_SplitListNeverEmpty ==
  /\ IsPresent(ls.workoutSplits) => Len(Val(ls.workoutSplits)) >= 1
  /\ currentView = "split" => Len(splits) >= 1
  /\ (currentView = "split" /\ Len(splits) = 1) =>
       \A id \in SplitIds : ~ENABLED deleteSplit(id)

\* deletes brought the list down to its last split
C5_Witness ==
  /\ lastCall.op = "deleteSplit"
  /\ currentView = "split"
  /\ Len(splits) = 1
  /\ IsPresent(ls.workoutSplits)
  /\ Len(Val(ls.workoutSplits)) = 1

\* C6: deleting the active split removes the stored active id and the
\* 'workoutSplit' copy, so that getActiveSplit returns null right after;
\* deleting a split that is not active leaves both as they were.
C6_DeleteActiveClearsBoth ==
  [][ StepOf("deleteSplit") =>
        IF ls.activeSplit = Some(lastCall'.args[1])
        THEN /\ ls'.activeSplit = Absent
             /\ ls'.workoutSplit = Absent
             /\ getActiveSplitRet(ls') = Absent
        ELSE /\ ls'.activeSplit = ls.activeSplit
             /\ ls'.workoutSplit = ls.workoutSplit ]_vars

\* the active split was deleted
C6_Witness ==
  /\ lastCall.op = "deleteSplit"
  /\ ls.activeSplit = Absent
  /\ ls.workoutSplit = Absent
  /\ IsPresent(ls.workoutSplits)
  /\ \A i \in 1..Len(storedSplits) : storedSplits[i].id # lastCall.args[1]

TemplateNamesOfDefaults == {"Push", "Pull", "Legs", "Upper", "Lower", "Full Body"}

C7_Read ==
  StepOf("getWorkoutTemplates") =>
    IF IsPresent(ls.workoutTemplates)
    THEN /\ lastCall'.result = Val(ls.workoutTemplates)
         /\ ls'.workoutTemplates = ls.workoutTemplates
    ELSE /\ lastCall'.result = defaultTemplates
         /\ DOMAIN lastCall'.result = TemplateNamesOfDefaults
         /\ ls'.workoutTemplates = Some(defaultTemplates)

C7_NoOtherWrite ==
  (IsPresent(ls.workoutTemplates) /\ ~StepOf("updateWorkoutTemplate")) =>
    ls'.workoutTemplates = ls.workoutTemplates

\* C7: with no 'workoutTemplates' value stored, getWorkoutTemplates returns
\* the default mapping of exactly six names (Push, Pull, Legs, Upper, Lower,
\* Full Body) and stores it; every later getWorkoutTemplates with no template
\* write in between returns that same mapping.
C7_DefaultTemplatesSeeded == [][C7_Read /\ C7_NoOtherWrite]_vars

\* a read that found the seeded defaults stored, and returned them
C7_Witness ==
  /\ lastCall.op = "getWorkoutTemplates"
  /\ lastCall.args[1]
  /\ lastCall.result = defaultTemplates
  /\ ls.workoutTemplates = Some(defaultTemplates)

\* C8: after autoSave(k, d) at time t, getAutoSave(k) at time t' returns d
\* when t' - t is below 24 hours and null when t' - t is at least 24 hours
\* and one millisecond; the read does not delete the expired entry.
C8_AutoSaveExpiry ==
  (lastCall.op = "getAutoSave" /\ lastCall.args[2]) =>
    /\ HasKey(ls.autosave, lastCall.args[1])
    /\ LET entry == ls.autosave[lastCall.args[1]]
       IN /\ now - entry.timestamp < 24 * 60 * 60 * 1000 =>
               lastCall.result = Some(entry.data)
          /\ now - entry.timestamp >= 24 * 60 * 60 * 1000 + 1 =>
               lastCall.result = Absent

\* an entry older than 24 hours was read as null, and is still stored
C8_Witness ==
  /\ lastCall.op = "getAutoSave"
  /\ lastCall.args[2]
  /\ lastCall.result = Absent
  /\ HasKey(ls.autosave, lastCall.args[1])
  /\ now - ls.autosave[lastCall.args[1]].timestamp >= 24 * 60 * 60 * 1000 + 1

\* C9: what is written is what is read back: after updateWorkoutTemplate(n, T)
\* getWorkoutTemplate(n) equals T; after updateSplit(S) with S.id in the
\* stored list the entry with that id equals S; after saveWorkoutSession(X)
\* getWorkoutSessions contains an entry equal to X.
C9_RoundTrips ==
  /\ lastCall.op = "updateWorkoutTemplate" =>
       getWorkoutTemplateRet(ls, lastCall.args[1]) = Some(lastCall.args[2])
  /\ (lastCall.op = "updateSplit" /\ lastCall.args[2]) =>
       FindById(storedSplits, lastCall.args[1].id) = Some(lastCall.args[1])
  /\ lastCall.op = "saveWorkoutSession" =>
       \E i \in 1..Len(storedSessions) : storedSessions[i] = lastCall.args[1]

\* a template was written under a name the defaults do not have, next to the
\* seeded defaults
C9_Witness ==
  /\ lastCall.op = "updateWorkoutTemplate"
  /\ lastCall.args[1] \notin TemplateNamesOfDefaults
  /\ Len(lastCall.args[2].exercises) = 2
  /\ DOMAIN getWorkoutTemplatesRet(ls) = TemplateNamesOfDefaults \cup {lastCall.args[1]}

\* Math.round(w * (1 + r / 30)), on integers
EpleyOneRepMax(w, r) == (2 * w * (30 + r) + 30) \div 60

\* C10: after a session with a completed set of weight w and reps r of
\* exercise E was finalized, the progress analytics report for E the
\* one-rep max round(w * (1 + r / 30)) (117 for 100 x 5).
C10_ProgressReportsOneRepMax ==
  currentView = "progress" =>
    \A i \in 1..Len(storedSessions) :
      \A c \in CompletedSetsOf(storedSessions[i]) :
        c[1] \in {progressExercises[j] : j \in 1..Len(progressExercises)} =>
          /\ HasKey(strongestLifts, c[1])
          /\ \E i2 \in 1..Len(storedSessions) :
               \E c2 \in CompletedSetsOf(storedSessions[i2]) :
                 /\ c2[1] = c[1]
                 /\ calculateOneRepMax(strongestLifts[c[1]].weight,
                                       strongestLifts[c[1]].reps)
                      = EpleyOneRepMax(c2[2], c2[3])

\* the tier of a streak of zero
BaseColor == "primary"
BaseMessage == "Every Journey Begins!"

\* C11 as stated: a streak of 6 selects the base tier, 7 the momentum tier,
\* 14 the on-fire tier and 30 the champion tier, for the label and for the
\* colour.
C11_TiersAsStated ==
  currentView = "progress" =>
    /\ streak = 6 => (getStreakColor = BaseColor /\ getStreakMessage = BaseMessage)
    /\ streak = 7 => (getStreakColor = "accent" /\ getStreakMessage = "Building Momentum!")
    /\ streak = 14 => (getStreakColor = "success" /\ getStreakMessage = "On Fire!")
    /\ streak = 30 => (getStreakColor = "streak-gold" /\ getStreakMessage = "Champion Level!")

\* C11, amended: the colour has the thresholds 7, 14 and 30 and the label
\* the thresholds 3, 7, 14 and 30, so that a streak of 6 selects the base
\* colour and the getting-started label, 7 the momentum tier, 14 the on-fire
\* tier and 30 the champion tier; the base label is selected below 3 only.
C11_StreakTiers ==
  currentView = "progress" =>
    /\ getStreakColor =
         (CASE streak >= 30 -> "streak-gold"
            [] streak >= 14 /\ streak < 30 -> "success"
            [] streak >= 7 /\ streak < 14 -> "accent"
            [] streak < 7 -> BaseColor)
    /\ getStreakMessage =
         (CASE streak >= 30 -> "Champion Level!"
            [] streak >= 14 /\ streak < 30 -> "On Fire!"
            [] streak >= 7 /\ streak < 14 -> "Building Momentum!"
            [] streak >= 3 /\ streak < 7 -> "Getting Started!"
            [] streak < 3 -> BaseMessage)

\* the progress view shows a streak of 6: base colour, getting-started label
C11_Witness ==
  /\ currentView = "progress"
  /\ streak = 6
  /\ getStreakColor = BaseColor
  /\ getStreakMessage = "Getting Started!"

C12_Upsert ==
  StepOf("saveWorkoutSession") =>
    LET session == lastCall'.args[1]
        before == storedSessions
        after == getWorkoutSessionsRet(ls')
        at == {i \in 1..Len(before) : before[i].id = session.id}
    IN IF at # {}
       THEN /\ Len(after) = Len(before)
            /\ \A i \in 1..Len(before) :
                 after[i] = IF i \in at THEN session ELSE before[i]
       ELSE after = Append(before, session)

C12_DistinctIds ==
  \A i, j \in 1..Len(storedSessions) :
    storedSessions[i].id = storedSessions[j].id => i = j

\* C12: saveWorkoutSession with an id already in the stored session list
\* replaces that entry at its position and leaves the length of the list and
\* every other entry unchanged; with a new id it appends one entry; the ids
\* in the stored list stay pairwise distinct.
C12_SessionUpsert == []C12_DistinctIds /\ [][C12_Upsert]_vars

\* the first of two stored sessions was saved again, with other content than
\* the second one's
C12_Witness ==
  /\ lastCall.op = "saveWorkoutSession"
  /\ Len(storedSessions) = 2
  /\ storedSessions[1] = lastCall.args[1]
  /\ storedSessions[1].exercises # storedSessions[2].exercises

AutoSaveSlotAbsent(st, workoutType) == ~HasKey(st.autosave, AutoSaveKey(workoutType))

\* C13: once a session for workout type T is finalized, the auto-save slot
\* 'workout-T' is absent, and it is still absent after the next operation
\* that does not start a session, an auto-save callback scheduled before the
\* finalize included.
C13_SlotStaysCleared ==
  [][ /\ StepOf("saveWorkout") => AutoSaveSlotAbsent(ls', currentWorkoutType)
      /\ (lastCall.op = "saveWorkout" /\ lastCall'.op # "handleStartWorkout") =>
           AutoSaveSlotAbsent(ls', currentWorkoutType) ]_vars

\* the auto-save entry initializeWorkout finds usable at the given time
ValidAutoSave(st, workoutType, clock) ==
  /\ HasKey(st.autosave, AutoSaveKey(workoutType))
  /\ clock - st.autosave[AutoSaveKey(workoutType)].timestamp < 24 * 60 * 60 * 1000

\* C14: when a session starts with no valid auto-save for its workout type,
\* every exercise of the template gets exactly as many sets as its target
\* set count, each not completed and with the weight and reps of the
\* exercise's stored history entry, or 0 when it has none.
C14_InitFromTemplate ==
  [][ (/\ StepOf("handleStartWorkout")
       /\ currentView' = "workout"
       /\ ~ValidAutoSave(ls, currentWorkoutType', now')
       /\ IsPresent(getWorkoutTemplateRet(ls, currentWorkoutType'))) =>
        LET template == Val(getWorkoutTemplateRet(ls, currentWorkoutType'))
        IN Len(template.exercises) > 0 =>
             /\ Len(exercises') = Len(template.exercises)
             /\ \A i \in 1..Len(template.exercises) :
                  LET name == template.exercises[i].name
                  IN /\ exercises'[i].name = name
                     /\ Len(exercises'[i].sets) = template.exercises[i].sets
                     /\ \A k \in 1..Len(exercises'[i].sets) :
                          /\ ~exercises'[i].sets[k].completed
                          /\ exercises'[i].sets[k].weight =
                               (IF HasKey(ls.exercise, name)
                                THEN ls.exercise[name].weight ELSE 0)
                          /\ exercises'[i].sets[k].reps =
                               (IF HasKey(ls.exercise, name)
                                THEN ls.exercise[name].reps ELSE 0) ]_vars

\* a session started over an expired auto-save: its first exercise has the
\* history's 100 x 5 in every set, its second, without history, zeros
C14_Witness ==
  /\ lastCall.op = "handleStartWorkout"
  /\ currentView = "workout"
  /\ HasKey(ls.autosave, AutoSaveKey(currentWorkoutType))
  /\ ~ValidAutoSave(ls, currentWorkoutType, now)
  /\ Len(exercises) >= 2
  /\ HasKey(ls.exercise, exercises[1].name)
  /\ \A k \in 1..Len(exercises[1].sets) :
       exercises[1].sets[k].weight = 100 /\ exercises[1].sets[k].reps = 5
  /\ ~HasKey(ls.exercise, exercises[2].name)
  /\ \A k \in 1..Len(exercises[2].sets) : exercises[2].sets[k].weight = 0

\* C15: when a session starts and an unexpired auto-save exists for its
\* workout type, the exercises, set values, completed flags and current
\* exercise index of the session are those of the auto-saved payload; the
\* template and the exercise history are not used.
C15_RestoreFromAutoSave ==
  [][ (/\ StepOf("handleStartWorkout")
       /\ currentView' = "workout"
       /\ ValidAutoSave(ls, currentWorkoutType', now')) =>
        LET payload == ls.autosave[AutoSaveKey(currentWorkoutType')].data
        IN /\ exercises' = payload.exercises
           /\ currentExerciseIndex' = payload.currentExerciseIndex
           /\ ls'.workoutTemplates = ls.workoutTemplates ]_vars

\* a restored session on its second exercise, whose first set has another
\* weight than the history of its exercise
C15_Witness ==
  /\ lastCall.op = "handleStartWorkout"
  /\ currentView = "workout"
  /\ ValidAutoSave(ls, currentWorkoutType, now)
  /\ exercises = ls.autosave[AutoSaveKey(currentWorkoutType)].data.exercises
  /\ currentExerciseIndex = 1
  /\ HasKey(ls.exercise, exercises[1].name)
  /\ exercises[1].sets[1].weight # ls.exercise[exercises[1].name].weight

\* C16: a successful completeSet marks the set completed and sets the rest
\* countdown to 90 with resting on; each timer tick lowers the countdown by
\* 1 and is no user action; resting is on exactly while the countdown is
\* above 0, and it goes off only at the tick that reaches 0 or when the
\* recorder is left; and while the recorder stays open a running countdown
\* leads to the tick that reaches 0.
C16_CompleteStartsRest ==
  (StepOf("completeSet") /\ lastCall'.result = "Set Complete!") =>
    /\ exercises'[lastCall'.args[1] + 1].sets[lastCall'.args[2] + 1].completed
    /\ restTimer' = 90
    /\ isResting'

C16_TickLowersByOne ==
  lastCall'.op = "restTimerTick" =>
    /\ restTimer' = restTimer - 1
    /\ opsLeft' = opsLeft
    /\ exercises' = exercises
    /\ isResting' = (restTimer' > 0)

C16_RestEndsAtZeroTick ==
  (isResting /\ ~isResting') =>
    \/ lastCall'.op = "restTimerTick" /\ restTimer = 1 /\ restTimer' = 0
    \/ currentView' # "workout"

C16_TickedToZero == lastCall.op = "restTimerTick" /\ restTimer = 0 /\ ~isResting

C16_RestCountdown ==
  /\ [](isResting = (restTimer > 0))
  /\ [][C16_CompleteStartsRest /\ C16_TickLowersByOne /\ C16_RestEndsAtZeroTick]_vars
  /\ (isResting ~> (C16_TickedToZero \/ currentView # "workout"))

\* the countdown of a completed set has run out in the open recorder
C16_Witness ==
  /\ C16_TickedToZero
  /\ currentView = "workout"
  /\ \E e \in 1..Len(exercises) : \E k \in 1..Len(exercises[e].sets) :
       exercises[e].sets[k].completed

\* C17: after a session is saved, for every exercise of it that has at least
\* one completed set the stored history entry of the exercise name holds the
\* weight and the reps of the last completed set in set order, whatever the
\* weights of the sets before it, and the date of the session; the entry of
\* an exercise without a completed set is left as it was.
C17_LastCompletedSetWins ==
  [][ StepOf("saveWorkoutSession") =>
        LET session == lastCall'.args[1]
        IN \A e \in 1..Len(session.exercises) :
             LET name == session.exercises[e].name
                 sets == session.exercises[e].sets
                 done == {k \in 1..Len(sets) : sets[k].completed}
             IN IF done = {}
                THEN /\ HasKey(ls'.exercise, name) = HasKey(ls.exercise, name)
                     /\ HasKey(ls.exercise, name) => ls'.exercise[name] = ls.exercise[name]
                ELSE LET last == CHOOSE k \in done : \A j \in done : j <= k
                     IN /\ HasKey(ls'.exercise, name)
                        /\ ls'.exercise[name] =
                             [weight |-> sets[last].weight, reps |-> sets[last].reps,
                              date |-> session.date] ]_vars

\* a saved session whose first, heaviest set and second set are completed and
\* whose third set is not: the history holds the second and the date of the
\* session
C17_Witness ==
  /\ lastCall.op = "saveWorkoutSession"
  /\ LET ex == lastCall.args[1].exercises[1]
     IN /\ ex.sets[1].completed /\ ex.sets[2].completed /\ ~ex.sets[3].completed
        /\ ex.sets[1].weight > ex.sets[2].weight
        /\ ex.sets[3].weight > ex.sets[2].weight
        /\ HasKey(ls.exercise, ex.name)
        /\ ls.exercise[ex.name].weight = ex.sets[2].weight
        /\ ls.exercise[ex.name].reps = ex.sets[2].reps
        /\ ls.exercise[ex.name].date = lastCall.args[1].date

\* C18: the stored streak never decreases: the finalization of a session
\* raises it by exactly 1, on whatever day, and every other step leaves it
\* as it is.
C18_StreakMonotone ==
  [][ /\ getStreakRet(ls') >= getStreakRet(ls)
      /\ IF StepOf("saveWorkout")
         THEN getStreakRet(ls') = getStreakRet(ls) + 1
         ELSE getStreakRet(ls') = getStreakRet(ls) ]_vars

\* the second session finalized within a day of the first
C18_Witness ==
  /\ lastCall.op = "saveWorkout"
  /\ getStreakRet(ls) = 2
  /\ Len(storedSessions) = 2
  /\ storedSessions[2].date - storedSessions[1].date \in 1..(DAY_MS - 1)

\* C19: once the active split has been deleted (splits are stored and no
\* active id is), the stored active id stays absent until a step of the
\* "Set Active" button; no other step, the mount of the split manager
\* included, stores one.
C19_NoActiveUntilActivated ==
  [][ (/\ IsPresent(ls.workoutSplits)
       /\ ls.activeSplit = Absent
       /\ IsPresent(ls'.activeSplit)) => StepOf("setActiveWorkoutSplit") ]_vars

\* ------------------------------------------------------------------------
\* C20: a validation failure mutates no persisted state.  A createSplit step
\* taken with an empty (or blank) split name, or with any empty (or blank)
\* day entry, leaves the stored split list unchanged; an addExercise step
\* taken with an empty or whitespace-only name leaves the stored templates
\* and the auto-save slot of the exercise manager unchanged.
\* ------------------------------------------------------------------------
C20_BlankText == {"", " "}

C20_CreateSplitRefused ==
  \/ newSplitName \in C20_BlankText
  \/ \E i \in 1..Len(newSplitDays) : newSplitDays[i] \in C20_BlankText

C20_ValidationFailureWritesNothing ==
  [][ /\ (StepOf("createSplit") /\ C20_CreateSplitRefused)
         => (ls'.workoutSplits = ls.workoutSplits /\ ls' = ls)
      /\ (StepOf("addExercise") /\ newExerciseName \in C20_BlankText)
         => /\ ls'.workoutTemplates = ls.workoutTemplates
            /\ ls'.autosave = ls.autosave
            /\ ls' = ls ]_vars

\* a whitespace-only name was refused after an earlier, valid add had stored
\* the template and filled the auto-save slot of the exercise manager
C20_Witness ==
  /\ lastCall.op = "addExercise"
  /\ lastCall.args = <<" ">>
  /\ lastCall.result = "Invalid Exercise"
  /\ IsPresent(templateState)
  /\ Len(Val(templateState).exercises) >= 1
  /\ ExerciseManagerKey(currentWorkoutType) \in DOMAIN ls.autosave
  /\ IsPresent(ls.workoutTemplates)

\* a split with a blank day entry was refused while the stored list stood
C20_WitnessSplit ==
  /\ lastCall.op = "createSplit"
  /\ lastCall.result = "Invalid Split"
  /\ newSplitName = "Arms"
  /\ \E i \in 1..Len(newSplitDays) : newSplitDays[i] = " "
  /\ IsPresent(ls.workoutSplits)

\* the payload autoSaveWorkout would write for the state the recorder shows
CurrentPayload ==
  JsonTrackerState([exercises |-> exercises,
                    currentExerciseIndex |-> currentExerciseIndex,
                    sessionId |-> sessionId])

\* C21: during an in-progress session that has at least one exercise, each
\* firing of the periodic auto-save timer writes the session's current
\* exercises, set values and current exercise index to the auto-save slot of
\* its workout type.
C21_IntervalWritesCurrentState ==
  [][ (lastCall'.op = "autoSaveInterval" /\ Len(exercises) > 0) =>
        /\ HasKey(ls'.autosave, AutoSaveKey(currentWorkoutType))
        /\ ls'.autosave[AutoSaveKey(currentWorkoutType)].data = CurrentPayload ]_vars

\* C22: after updateSet or a successful completeSet, once the auto-save
\* callback that the operation scheduled has run, the payload of the
\* auto-save slot contains the effect of that operation: the new weight or
\* reps value, or completed = true for that set.
C22_ScheduledAutoSaveHasEffect ==
  [][ (lastCall'.op = "autoSaveTimeout" /\ Len(timeouts) = 1 /\ currentView = "workout") =>
        LET key == AutoSaveKey(currentWorkoutType)
            a == lastCall.args
        IN /\ lastCall.op = "updateSet" =>
                /\ HasKey(ls'.autosave, key)
                /\ ls'.autosave[key].data.exercises[a[1] + 1].sets[a[2] + 1][a[3]] = a[4]
           /\ (lastCall.op = "completeSet" /\ lastCall.result = "Set Complete!") =>
                /\ HasKey(ls'.autosave, key)
                /\ ls'.autosave[key].data.exercises[a[1] + 1].sets[a[2] + 1].completed ]_vars

\* the template stored under a workout type, <<t>> or <<>>
storedTemplate(st, workoutType) ==
  IF IsPresent(st.workoutTemplates) /\ HasKey(Val(st.workoutTemplates), workoutType)
  THEN Some(Val(st.workoutTemplates)[workoutType])
  ELSE Absent

\* C23: resetToDefault for a workout type whose name is in the original
\* default set stores, for that name, the template of the original default
\* set, whatever edits were made to the stored template before; for a name
\* with no template it changes nothing.
C23_ResetRestoresOriginal ==
  [][ StepOf("resetToDefault") =>
        IF HasKey(defaultTemplates, currentWorkoutType)
        THEN storedTemplate(ls', currentWorkoutType)
               = Some(JsonTemplate(defaultTemplates[currentWorkoutType]))
        ELSE storedTemplate(ls, currentWorkoutType) = Absent => ls' = ls ]_vars

\* the label the stored 'workoutSplit' record has at its currentDay
C24_StoredLabel(st) ==
  LET split == Val(st.workoutSplit)
  IN IF split.currentDay \in 0..(Len(split.days) - 1)
     THEN split.days[split.currentDay + 1] ELSE "undefined"

\* C24: the application never enters the workout view on a rest day:
\* handleStartWorkout switches to the workout view only when a 'workoutSplit'
\* record is stored and the label at its currentDay is not 'Rest', and then
\* the session's workout type is exactly that label.
C24_NoWorkoutOnRestDay ==
  /\ [](currentView = "workout" => currentWorkoutType # "Rest")
  /\ [][ (currentView # "workout" /\ currentView' = "workout") =>
           /\ StepOf("handleStartWorkout")
           /\ IsPresent(ls.workoutSplit)
           /\ C24_StoredLabel(ls) # "Rest"
           /\ currentWorkoutType' = C24_StoredLabel(ls) ]_vars

\* a session was started on the fifth day of the active split, the day after
\* its rest day, and its workout type is the label of that day
C24_Witness ==
  /\ lastCall.op = "handleStartWorkout"
  /\ currentView = "workout"
  /\ IsPresent(ls.workoutSplit)
  /\ Val(ls.workoutSplit).currentDay = 4
  /\ Val(ls.workoutSplit).days[4] = "Rest"
  /\ currentWorkoutType = "Push"

\* the start button was pressed with no 'workoutSplit' record stored, and
\* the dashboard stayed
C24_WitnessNoSplit ==
  /\ lastCall.op = "handleStartWorkout"
  /\ currentView = "dashboard"
  /\ ls.workoutSplit = Absent

\* every completed set of a list of exercises has a positive weight and a
\* positive number of reps
C25_Positive(exs) ==
  \A e \in 1..Len(exs) : \A k \in 1..Len(exs[e].sets) :
    exs[e].sets[k].completed => (exs[e].sets[k].weight > 0 /\ exs[e].sets[k].reps > 0)

\* C25: in every reachable session state, and in every stored session
\* record, each set with completed = true has weight > 0 and reps > 0, for
\* every numeric value the weight and reps inputs accept.
C25_CompletedSetsPositive ==
  /\ C25_Positive(exercises)
  /\ \A i \in 1..Len(storedSessions) : C25_Positive(storedSessions[i].exercises)

\* C26: when a workout is completed through the application shell
\* (saveWorkout followed by the shell's onComplete handler), the current day
\* held in the 'workoutSplit' record that the dashboard displays has moved
\* forward by exactly one position modulo the day-list length.
C26_ShellAdvancesOneDay ==
  [][ (StepOf("saveWorkout") /\ IsPresent(ls.workoutSplit)) =>
        LET before == Val(ls.workoutSplit)
        IN /\ IsPresent(ls'.workoutSplit)
           /\ Val(ls'.workoutSplit).currentDay = (before.currentDay + 1) % Len(before.days)
           /\ currentSplit' = Val(ls'.workoutSplit) ]_vars

\* the completed sets of every exercise are the first sets of its list
C27_CompletedPrefix(exs) ==
  \A e \in 1..Len(exs) : \A k \in 1..Len(exs[e].sets) :
    exs[e].sets[k].completed => \A j \in 1..(k - 1) : exs[e].sets[j].completed

\* within a session, a set that is completed stays completed
C27_StaysCompleted ==
  (currentView = "workout" /\ currentView' = "workout" /\ sessionId' = sessionId) =>
    /\ Len(exercises') = Len(exercises)
    /\ \A e \in 1..Len(exercises) :
         /\ Len(exercises'[e].sets) = Len(exercises[e].sets)
         /\ \A k \in 1..Len(exercises[e].sets) :
              exercises[e].sets[k].completed => exercises'[e].sets[k].completed

\* C27: in a session initialized from a template, with the interface guards
\* applied (a set can be completed only when its index equals the number of
\* completed sets of its exercise), the completed sets of every exercise
\* always form a prefix of its set list, and no operation turns a completed
\* set back to not completed.
C27_CompletedSetsFormPrefix ==
  /\ [](C27_CompletedPrefix(exercises))
  /\ [][C27_StaysCompleted]_vars

\* three of the four sets of the first exercise were completed in turn, the
\* fourth is still open
C27_Witness ==
  /\ currentView = "workout"
  /\ Len(exercises) > 1
  /\ Len(exercises[1].sets) = 4
  /\ CountCompleted(exercises[1].sets) = 3
  /\ ~exercises[1].sets[4].completed
  /\ lastCall.op = "completeSet"

\* C28: in every reachable session state the rest countdown is in 0..90, and
\* resting being on implies the countdown is at least 1; completing another
\* set while resting puts the countdown back to 90 instead of starting a
\* second countdown (every firing of the timer still lowers it by one).
C28_CompleteWhileResting ==
  (StepOf("completeSet") /\ lastCall'.result = "Set Complete!" /\ isResting) =>
    (restTimer' = 90 /\ isResting')

C28_OneCountdown ==
  lastCall'.op = "restTimerTick" =>
    restTimer' = (IF restTimer > 1 THEN restTimer - 1 ELSE 0)

C28_RestCountdownBounded ==
  /\ [](restTimer \in 0..90 /\ (isResting => restTimer >= 1))
  /\ [][C28_CompleteWhileResting /\ C28_OneCountdown]_vars

\* the second set of the first exercise was completed after the first, and
\* the countdown stands at 90 again
C28_Witness ==
  /\ lastCall.op = "completeSet"
  /\ lastCall.result = "Set Complete!"
  /\ lastCall.args = <<0, 1>>
  /\ CountCompleted(exercises[1].sets) = 2
  /\ isResting
  /\ restTimer = 90

\* C29: the total-workouts count computed by the progress view is the number
\* of the 8 fixed exercise names that have a stored last-workout record, so
\* it is at most 8 in every reachable state and the '50 Workouts'
\* achievement (count >= 50) is never unlocked.
C29_TotalWorkoutsAtMostEight ==
  /\ totalWorkouts <= 8
  /\ ~fiftyWorkoutsUnlocked
  /\ currentView = "progress" =>
       totalWorkouts = Cardinality({i \in 1..8 : progressExercises[i] \in DOMAIN ls.lastWorkout})

\* the progress view over ten stored records: the eight it looks up are
\* counted, the other two are not
C29_Witness ==
  /\ currentView = "progress"
  /\ lastCall.op = "loadProgressData"
  /\ Cardinality(DOMAIN ls.lastWorkout) = 10
  /\ totalWorkouts = 8

\* the history entries of the exercises without a completed set are the
\* same in both stores
C30_HistoryKept(exs, before, after) ==
  \A e \in 1..Len(exs) :
    CountCompleted(exs[e].sets) = 0 =>
      /\ HasKey(after.exercise, exs[e].name) = HasKey(before.exercise, exs[e].name)
      /\ HasKey(before.exercise, exs[e].name) =>
           after.exercise[exs[e].name] = before.exercise[exs[e].name]

\* C30: finalizing a session leaves the stored history entry of every
\* exercise that has no completed set in that session unchanged, and
\* finalizing when no split is active still saves the session and raises the
\* streak while leaving the split list and the 'workoutSplit' record
\* unchanged.
C30_FinalizeFrame ==
  [][ StepOf("saveWorkout") =>
        /\ C30_HistoryKept(exercises, ls, ls')
        /\ ls.activeSplit = Absent =>
             /\ \E i \in 1..Len(getWorkoutSessionsRet(ls')) :
                  getWorkoutSessionsRet(ls')[i].id = sessionId
             /\ Len(getWorkoutSessionsRet(ls')) = Len(getWorkoutSessionsRet(ls)) + 1
             /\ getStreakRet(ls') = getStreakRet(ls) + 1
             /\ ls'.workoutSplits = ls.workoutSplits
             /\ ls'.workoutSplit = ls.workoutSplit ]_vars

\* finalized with no split active: a second session is stored and the streak
\* is 2; Romanian Deadlift, without a completed set, has its entry of the
\* session before, and Squats, completed, has an entry of this session
C30_Witness ==
  /\ lastCall.op = "saveWorkout"
  /\ ls.activeSplit = Absent
  /\ ls.workoutSplit = Absent
  /\ IsPresent(ls.workoutSplits)
  /\ Len(storedSessions) = 2
  /\ getStreakRet(ls) = 2
  /\ HasKey(ls.exercise, "Romanian Deadlift")
  /\ ls.exercise["Romanian Deadlift"].date = StartTime - 3
  /\ HasKey(ls.exercise, "Squats")
  /\ ls.exercise["Squats"].date = StartTime

====
